---------------------------- MODULE Spec2Model ----------------------------
(***************************************************************************)
(* Track-path conditioning and corridor-mesh generation of                 *)
(* src/src/gnodes_builder/templates.py.                                    *)
(*                                                                         *)
(* Numbers.  The program computes in IEEE doubles; the model computes in   *)
(* fixed point with floor division:                                        *)
(*   lengths and coordinates   1.0 = Scale      (0.001 per unit)           *)
(*   angles (radians)          1.0 = AngleScale (0.0001 rad per unit)      *)
(*   unit vectors, fractions   1.0 = AngleScale                            *)
(*   dot and cross products    1.0 = AngleScale * AngleScale               *)
(* math.sqrt is the integer square root, math.acos the Abramowitz-Stegun   *)
(* 4.4.45 polynomial (within 0.0004 rad of acos over [-1,1]), math.asin is *)
(* pi/2 - acos.  Coordinates stay within +-11 so that every product fits   *)
(* the checker's 32-bit integers.                                          *)
(***************************************************************************)
EXTENDS Integers, Sequences, FiniteSets, TLC

VARIABLES
    lp_path,      \* _limit_path_curvature: the argument `path`
    lp_width,     \* the argument `track_width`
    lp_maxit,     \* the argument `max_iterations`
    lp_points,    \* the local `points` (the working copy)
    lp_iter,      \* sweeps of the outer loop run so far
    lp_broke,     \* the outer loop was left by `break`
    lp_pc,        \* "idle" | "call" | "loop" | "done"
    lp_result,    \* the returned path
    of_radius,    \* _get_adaptive_offsets: the argument `curvature_radius`
    of_half,      \* the argument `half_width`
    of_turn,      \* the argument `turn_direction`
    of_pc,        \* "idle" | "call" | "done"
    of_result,    \* the returned (left_offset, right_offset)
    gc_waypoints, \* generate_custom_path: the argument `waypoints`
    gc_heights,   \* the argument `height_profile` (<< >> stands for None)
    gc_segments,  \* the argument `segments_per_section`
    gc_adaptive,  \* the argument `adaptive_subdivision`
    gc_pc,        \* "idle" | "call" | "done" | "ValueError"
    gc_result,    \* the returned points
    mb_path,      \* _create_track_along_path: the argument `path_points`
    mb_width,     \* the argument `width`
    mb_thickness, \* the argument `thickness`
    mb_adaptive,  \* the argument `adaptive_width`
    mb_objects,   \* objects linked into the host scene (bpy.context.collection)
    mb_verts,     \* bm.verts: the positions, in allocation order
    mb_faces,     \* bm.faces: each the four vertex numbers of a quad
    mb_i,         \* the loop index
    mb_pc,        \* "idle" | "call" | "sections" | "faces" | "done" | "ValueError"
    rs_path,      \* _resample_path_uniform: the argument `path`
    rs_given,     \* the argument `target_spacing` is not None
    rs_spacing,   \* the argument `target_spacing` when given
    rs_min,       \* the argument `min_points`
    rs_lens,      \* the local `segment_lengths`
    rs_target,    \* the local `target_points`
    rs_step,      \* the local `target_spacing` after line 1239: total_length / target_points
    rs_segment,   \* the local `current_segment`
    rs_progress,  \* the local `segment_progress`
    rs_resampled, \* the local `resampled`
    rs_pc,        \* "idle" | "call" | "loop" | "returned" | "ZeroDivisionError"
    sg_path,      \* the conditioning and frame stages in a row: the input path
    sg_width,     \* the argument `track_width`
    sg_resample,  \* the path is resampled first
    sg_out,       \* the path the last conditioning stage returned
    sg_tangents,  \* what _compute_smooth_tangents returned
    sg_radii,     \* what _compute_curvature_radii returned
    sg_turns,     \* what _compute_turn_directions returned
    sg_pc,        \* the stage last returned from, or the exception raised
    cr_path,      \* _compute_curvature_radius: the argument `path_points`
    cr_index,     \* the argument `index`
    cr_half,      \* the `half_width` the radius is then used with
    cr_turn,      \* the `turn_direction` the radius is then used with
    cr_radius,    \* what _compute_curvature_radius returned
    cr_result,    \* what _get_adaptive_offsets returned for that radius
    cr_pc,        \* "idle" | "call" | "radius" | "done"
    tg_path,      \* _compute_smooth_tangents: the argument `path_points`
    tg_window,    \* the argument `smoothing_window`
    tg_raw,       \* the local `raw_tangents` after the first pass
    tg_result,    \* the returned `smoothed_tangents`
    tg_pc,        \* "idle" | "call" | "raw" | "done" | the exception raised
    pl_fn,        \* the entry point: "create_track_from_path" | "create_custom_track"
                  \* | "create_figure8_track"
    pl_input,     \* the argument `path` or `waypoints`, or <<size, bridge_height, segments>>
    pl_width,     \* the argument `track_width`
    pl_thickness, \* the argument `track_thickness`
    pl_barriers,  \* the argument `include_barriers`
    pl_resample,  \* the argument `resample` (create_custom_track always resamples)
    pl_location,  \* the argument `location`
    pl_path,      \* the local `path` / `path_points` / `offset_path`
    pl_objects,   \* the local `objects`: the meshes appended so far, in order
    pl_pc,        \* the stage last completed, or the exception raised
    pl_alias,     \* the local path is the caller's list object itself
    pl_scene,     \* the host scene: names of the objects linked, over all runs
    pl_log,       \* the stages this run has called, each with the path it returned
                  \* (conditioning stages) or was given (mesh builders)
    pl_run,       \* which call of the entry point this is (1 or 2)
    pl_first      \* what the first call produced, kept by the caller

lpVars == <<lp_path, lp_width, lp_maxit, lp_points, lp_iter, lp_broke, lp_pc, lp_result>>
ofVars == <<of_radius, of_half, of_turn, of_pc, of_result>>
gcVars == <<gc_waypoints, gc_heights, gc_segments, gc_adaptive, gc_pc, gc_result>>
mbVars == <<mb_path, mb_width, mb_thickness, mb_adaptive, mb_objects, mb_verts, mb_faces,
            mb_i, mb_pc>>

rsVars == <<rs_path, rs_given, rs_spacing, rs_min, rs_lens, rs_target, rs_step, rs_segment,
            rs_progress, rs_resampled, rs_pc>>
sgVars == <<sg_path, sg_width, sg_resample, sg_out, sg_tangents, sg_radii, sg_turns, sg_pc>>
crVars == <<cr_path, cr_index, cr_half, cr_turn, cr_radius, cr_result, cr_pc>>
tgVars == <<tg_path, tg_window, tg_raw, tg_result, tg_pc>>
plVars == <<pl_fn, pl_input, pl_width, pl_thickness, pl_barriers, pl_resample, pl_location,
            pl_path, pl_objects, pl_pc, pl_alias, pl_scene, pl_log, pl_run, pl_first>>

vars == <<lpVars, ofVars, gcVars, mbVars, rsVars, sgVars, crVars, tgVars, plVars>>

----------------------------------------------------------------------------
(* Fixed-point arithmetic *)

Scale == 10^3
AngleScale == 10^4
PiA == 31416          \* math.pi
HalfPiA == PiA \div 2 \* math.pi / 2
UnitSq == AngleScale * AngleScale   \* 1.0 as a product of two unit-vector components
Infinity == 2^30      \* float('inf'): above every finite length of the model

Max(a, b) == IF a >= b THEN a ELSE b
Min(a, b) == IF a <= b THEN a ELSE b
Abs(a) == IF a < 0 THEN -a ELSE a

RECURSIVE SqrtIter(_, _)
SqrtIter(n, x) ==
    LET y == (x + n \div x) \div 2
    IN  IF y >= x THEN x ELSE SqrtIter(n, y)

\* math.sqrt on a non-negative fixed-point square: floor of the root
Sqrt(n) == IF n < 2 THEN n ELSE SqrtIter(n, n)

\* math.acos for an argument in [0, 1] (scale UnitSq), result in AngleScale
AcosPos(d) ==
    LET x  == d \div AngleScale
        p3 == (x * (-1873)) \div AngleScale
        p2 == (x * (7426 + p3)) \div AngleScale
        p1 == (x * (-21211 + p2)) \div AngleScale
    IN  (Sqrt(UnitSq - d) * (157073 + p1)) \div (10 * AngleScale)

\* math.acos for an argument in [-1, 1] (scale UnitSq)
Acos(d) == IF d >= 0 THEN AcosPos(d) ELSE PiA - AcosPos(-d)

\* math.asin for an argument in [0, 1] (scale AngleScale)
Asin(s) == HalfPiA - Acos(s * AngleScale)

\* math.asin on [0, 1] (scale AngleScale), clamped like a unit component
AsinU(s) == Asin(Min(AngleScale, s))

\* math.atan2(ty, tx) of a unit vector (components in AngleScale): the angle is
\* taken from the smaller component, where asin is well conditioned
Atan2(ty, tx) ==
    LET ax   == Abs(tx)
        ay   == Abs(ty)
        base == IF ay <= ax THEN AsinU(ay) ELSE HalfPiA - AsinU(ax)
        q    == IF tx >= 0 THEN base ELSE PiA - base
    IN  IF ty >= 0 THEN q ELSE -q

\* an angle brought into [-pi, pi)
WrapAngle(a) == ((a + PiA) % (2 * PiA)) - PiA

\* math.sin by its Taylor polynomial of degree 9 on [-pi/2, pi/2], in Horner
\* form (result in AngleScale)
Sin(a) ==
    LET w  == WrapAngle(a)
        x  == IF w > HalfPiA THEN PiA - w ELSE IF w < -HalfPiA THEN -PiA - w ELSE w
        x2 == (x * x) \div AngleScale
        h4 == AngleScale - x2 \div 72
        h3 == AngleScale - ((x2 * h4) \div AngleScale) \div 42
        h2 == AngleScale - ((x2 * h3) \div AngleScale) \div 20
        h1 == AngleScale - ((x2 * h2) \div AngleScale) \div 6
    IN  (x * h1) \div AngleScale

\* math.cos
Cos(a) == Sin(a + HalfPiA)

\* x * c / k for x, k > 0 and 0 <= c < 2^15 without leaving 32 bits; results above
\* every length of the model saturate just below Infinity
MulDiv(x, c, k) ==
    LET q == x \div k
        r == x % k
        d == k \div 32768 + 1
    IN  IF q >= (Infinity \div Max(1, c)) - 1
        THEN Infinity - 1
        ELSE q * c + ((r \div d) * c) \div Max(1, k \div d)

\* int(a / b) for b > 0: Python's int() truncates toward zero
TruncDiv(a, b) == IF a >= 0 THEN a \div b ELSE -((-a) \div b)

\* a long `for` loop is unrolled LoopBlock iterations at a time
LoopBlock == 2^4

\* a Python list built by a comprehension or by appends: every element is
\* computed once, when the list is built
List(f) == f \o << >>

\* path[i] of a Python list indexed modulo its length
At(path, i) == path[(i % Len(path)) + 1]

----------------------------------------------------------------------------
(* One function is under study in each specification; the others stay idle *)

LimitIdle ==
    /\ lp_path = << >>
    /\ lp_width = 0
    /\ lp_maxit = 0
    /\ lp_points = << >>
    /\ lp_iter = 0
    /\ lp_broke = FALSE
    /\ lp_pc = "idle"
    /\ lp_result = << >>

OffsetsIdle ==
    /\ of_radius = 0
    /\ of_half = 0
    /\ of_turn = 0
    /\ of_pc = "idle"
    /\ of_result = << >>

GenerateIdle ==
    /\ gc_waypoints = << >>
    /\ gc_heights = << >>
    /\ gc_segments = 0
    /\ gc_adaptive = FALSE
    /\ gc_pc = "idle"
    /\ gc_result = << >>

MeshIdle ==
    /\ mb_path = << >>
    /\ mb_width = 0
    /\ mb_thickness = 0
    /\ mb_adaptive = FALSE
    /\ mb_objects = 0
    /\ mb_verts = << >>
    /\ mb_faces = << >>
    /\ mb_i = 0
    /\ mb_pc = "idle"

ResampleIdle ==
    /\ rs_path = << >>
    /\ rs_given = FALSE
    /\ rs_spacing = 0
    /\ rs_min = 0
    /\ rs_lens = << >>
    /\ rs_target = 0
    /\ rs_step = 0
    /\ rs_segment = 0
    /\ rs_progress = 0
    /\ rs_resampled = << >>
    /\ rs_pc = "idle"

StagesIdle ==
    /\ sg_path = << >>
    /\ sg_width = 0
    /\ sg_resample = FALSE
    /\ sg_out = << >>
    /\ sg_tangents = << >>
    /\ sg_radii = << >>
    /\ sg_turns = << >>
    /\ sg_pc = "idle"

RadiusIdle ==
    /\ cr_path = << >>
    /\ cr_index = 0
    /\ cr_half = 0
    /\ cr_turn = 0
    /\ cr_radius = 0
    /\ cr_result = << >>
    /\ cr_pc = "idle"

TangentsIdle ==
    /\ tg_path = << >>
    /\ tg_window = 0
    /\ tg_raw = << >>
    /\ tg_result = << >>
    /\ tg_pc = "idle"

PipelineIdle ==
    /\ pl_fn = "none"
    /\ pl_input = << >>
    /\ pl_width = 0
    /\ pl_thickness = 0
    /\ pl_barriers = FALSE
    /\ pl_resample = FALSE
    /\ pl_location = <<0, 0, 0>>
    /\ pl_path = << >>
    /\ pl_objects = << >>
    /\ pl_pc = "idle"
    /\ pl_alias = FALSE
    /\ pl_scene = << >>
    /\ pl_log = << >>
    /\ pl_run = 0
    /\ pl_first = [pc |-> "none", log |-> << >>, objects |-> << >>]

IdleBut(c) ==
    /\ IF c = "limit" THEN TRUE ELSE LimitIdle
    /\ IF c = "offsets" THEN TRUE ELSE OffsetsIdle
    /\ IF c = "generate" THEN TRUE ELSE GenerateIdle
    /\ IF c = "mesh" THEN TRUE ELSE MeshIdle
    /\ IF c = "resample" THEN TRUE ELSE ResampleIdle
    /\ IF c = "stages" THEN TRUE ELSE StagesIdle
    /\ IF c = "radius" THEN TRUE ELSE RadiusIdle
    /\ IF c = "tangents" THEN TRUE ELSE TangentsIdle
    /\ IF c = "pipeline" THEN TRUE ELSE PipelineIdle

FrameBut(c) ==
    /\ IF c = "limit" THEN TRUE ELSE UNCHANGED lpVars
    /\ IF c = "offsets" THEN TRUE ELSE UNCHANGED ofVars
    /\ IF c = "generate" THEN TRUE ELSE UNCHANGED gcVars
    /\ IF c = "mesh" THEN TRUE ELSE UNCHANGED mbVars
    /\ IF c = "resample" THEN TRUE ELSE UNCHANGED rsVars
    /\ IF c = "stages" THEN TRUE ELSE UNCHANGED sgVars
    /\ IF c = "radius" THEN TRUE ELSE UNCHANGED crVars
    /\ IF c = "tangents" THEN TRUE ELSE UNCHANGED tgVars
    /\ IF c = "pipeline" THEN TRUE ELSE UNCHANGED plVars

----------------------------------------------------------------------------
(* _limit_path_curvature *)

Tolerance == 100        \* 0.01 rad, the early-exit tolerance
MinSegment == 1         \* 0.001, the zero-length threshold
SafeCeiling == 12566    \* math.pi * 0.4
SafeFloorAngle == 1000  \* 0.1 rad, returned for a segment below MinSegment
SafeSinMin == 500       \* 0.05
SafeSinMax == 9900      \* 0.99
SafeMargin == 8000      \* 0.8
MaxSmooth == 3000       \* 0.3

\* a sample with a leg shorter than 0.001 counted as a full reversal
GetTurnAngleShortLegReversal(points, i) ==
    LET p0   == At(points, i - 1)
        p1   == At(points, i)
        p2   == At(points, i + 1)
        dx1  == p1[1] - p0[1]
        dy1  == p1[2] - p0[2]
        len1 == Sqrt(dx1 * dx1 + dy1 * dy1)
        dx2  == p2[1] - p1[1]
        dy2  == p2[2] - p1[2]
        len2 == Sqrt(dx2 * dx2 + dy2 * dy2)
    IN  IF len1 < MinSegment \/ len2 < MinSegment
        THEN <<PiA, 0, 0>>
        ELSE LET ux1   == (dx1 * AngleScale) \div len1
                 uy1   == (dy1 * AngleScale) \div len1
                 ux2   == (dx2 * AngleScale) \div len2
                 uy2   == (dy2 * AngleScale) \div len2
                 dot   == Max(-UnitSq, Min(UnitSq, ux1 * ux2 + uy1 * uy2))
                 cross == ux1 * uy2 - uy1 * ux2
             IN  <<Acos(dot), (len1 + len2) \div 2, cross>>

\* get_turn_angle(i): <<angle, avg_len, cross>>
GetTurnAngle(points, i) ==
    LET p0   == At(points, i - 1)
        p1   == At(points, i)
        p2   == At(points, i + 1)
        dx1  == p1[1] - p0[1]
        dy1  == p1[2] - p0[2]
        len1 == Sqrt(dx1 * dx1 + dy1 * dy1)
        dx2  == p2[1] - p1[1]
        dy2  == p2[2] - p1[2]
        len2 == Sqrt(dx2 * dx2 + dy2 * dy2)
    IN  IF len1 < MinSegment \/ len2 < MinSegment
        THEN <<0, 0, 0>>
        ELSE LET ux1   == (dx1 * AngleScale) \div len1
                 uy1   == (dy1 * AngleScale) \div len1
                 ux2   == (dx2 * AngleScale) \div len2
                 uy2   == (dy2 * AngleScale) \div len2
                 dot   == Max(-UnitSq, Min(UnitSq, ux1 * ux2 + uy1 * uy2))
                 cross == ux1 * uy2 - uy1 * ux2
             IN  <<Acos(dot), (len1 + len2) \div 2, cross>>

\* get_safe_angle(segment_length), half_width = track_width / 2
GetSafeAngle(segment_length, track_width) ==
    IF segment_length < MinSegment
    THEN SafeFloorAngle
    ELSE IF track_width > 0 /\ segment_length >= track_width      \* ratio >= 1.0
         THEN SafeCeiling
         ELSE LET safe_sin == Max(SafeSinMin, Min(SafeSinMax,
                                  (segment_length * SafeMargin) \div track_width))
              IN  2 * Asin(safe_sin)

\* a displacement in the plane only: z is left where it was
MovePointFlat(points, i, excess) ==
    LET prev == At(points, i - 1)
        next == At(points, i + 1)
        cur  == At(points, i)
        smooth_factor == Min(MaxSmooth, (excess * AngleScale) \div PiA)
        to(k) == cur[k] + ((((prev[k] + next[k]) \div 2) - cur[k]) * smooth_factor)
                          \div AngleScale
    IN  [points EXCEPT ![(i % Len(points)) + 1] = <<to(1), to(2), cur[3]>>]

\* the body of `for i in range(n)` for one i: the points after it
MovePoint(points, i, excess) ==
    LET prev == At(points, i - 1)
        next == At(points, i + 1)
        cur  == At(points, i)
        smooth_factor == Min(MaxSmooth, (excess * AngleScale) \div PiA)
        to(k) == cur[k] + ((((prev[k] + next[k]) \div 2) - cur[k]) * smooth_factor)
                          \div AngleScale
        moved == <<to(1), to(2), to(3)>>
    IN  [points EXCEPT ![(i % Len(points)) + 1] = moved]

\* the body of `for i in range(n)` for sample i on st = <<points, max_excess>>
SweepAt(st, track_width, i) ==
    LET ta     == GetTurnAngle(st[1], i)
        safe   == GetSafeAngle(ta[2], track_width)
        excess == ta[1] - safe
    IN  IF ta[1] > safe
        THEN <<MovePoint(st[1], i, excess), Max(st[2], excess)>>
        ELSE st

\* the iterations i..last of `for i in range(n)`
RECURSIVE SweepBlock(_, _, _, _)
SweepBlock(st, track_width, i, last) ==
    IF i > last \/ i >= Len(st[1])
    THEN st
    ELSE SweepBlock(SweepAt(st, track_width, i), track_width, i + 1, last)

\* the iterations from i on of `for i in range(n)`, LoopBlock at a time
RECURSIVE SweepFrom(_, _, _)
SweepFrom(st, track_width, i) ==
    IF i >= Len(st[1])
    THEN st
    ELSE SweepFrom(SweepBlock(st, track_width, i, Min(i + LoopBlock, Len(st[1])) - 1),
                   track_width, i + LoopBlock)

\* one sweep `for i in range(n)`: <<points, max_excess>>
Sweep(points, track_width) == SweepFrom(<<points, 0>>, track_width, 0)

\* a relaxation loop that runs until convergence, with no iteration cap
SweepDueUncapped(iter, maxit) == TRUE

\* `for iteration in range(max_iterations)`: another sweep is due
SweepDue(iter, maxit) == iter < maxit

\* the sample paths _limit_path_curvature is called with (coordinates in 0.001)
Pt(x, y) == <<x, y, 0>>

\* a corner with a 0.005 leg next to a long one: the corner after it is 0.004 rad
\* over its safe angle
ShortLegPath ==
    << Pt(4166, -2172), Pt(4169, -2168), Pt(386, 3160),
       Pt(-3386, 3013), Pt(-4162, 341), Pt(-1174, -2172) >>

\* a near-180 degree hairpin with 5-unit legs
HairpinPath ==
    << Pt(0, 0), Pt(5000, 0), Pt(10000, 0), Pt(10000, 300), Pt(5000, 300), Pt(0, 300) >>

\* a regular octagon of side 2 (turn angle 45 degrees)
OctagonPath ==
    << Pt(1000, 2414), Pt(-1000, 2414), Pt(-2414, 1000), Pt(-2414, -1000),
       Pt(-1000, -2414), Pt(1000, -2414), Pt(2414, -1000), Pt(2414, 1000) >>

\* the hairpin on a slope: every sample has its own height
ClimbingHairpin ==
    << <<0, 0, 0>>, <<5000, 0, 1000>>, <<10000, 0, 2000>>,
       <<10000, 300, 3000>>, <<5000, 300, 2000>>, <<0, 300, 1000>> >>

ShortPaths ==
    { << >>, << Pt(0, 0) >>, << Pt(0, 0), Pt(4000, 0) >>,
      << Pt(0, 0), Pt(4000, 0), Pt(0, 4000) >> }

\* quadrilaterals whose corners are drawn near the corners of a square; corners
\* may coincide (duplicate adjacent points) and three may be collinear
CornerChoices(k) ==
    CASE k = 1 -> { Pt(0, 0), Pt(2000, 0) }
      [] k = 2 -> { Pt(6000, 0), Pt(2000, 0), Pt(6000, 3000) }
      [] k = 3 -> { Pt(6000, 6000), Pt(6000, 3000), Pt(3000, 1000) }
      [] k = 4 -> { Pt(0, 6000), Pt(0, 0), Pt(6000, 6000) }

Quadrilaterals ==
    { <<a, b, c, d>> : a \in CornerChoices(1), b \in CornerChoices(2),
                       c \in CornerChoices(3), d \in CornerChoices(4) }

LimitPaths ==
    ShortPaths \cup Quadrilaterals
        \cup { ShortLegPath, HairpinPath, OctagonPath, ClimbingHairpin }

LimitWidths == { 1000, 6000 }

MaxIter == 3   \* max_iterations is drawn from 0..MaxIter

----------------------------------------------------------------------------
(* _limit_path_curvature as a state machine: one step per sweep *)

LimitInit ==
    /\ lp_path \in LimitPaths
    /\ lp_width \in LimitWidths
    /\ lp_maxit \in 0..MaxIter
    /\ lp_points = << >>
    /\ lp_iter = 0
    /\ lp_broke = FALSE
    /\ lp_pc = "call"
    /\ lp_result = << >>
    /\ IdleBut("limit")

\* n = len(path); if n < 4: return path; points = [list(p) for p in path]
LimitEnter ==
    /\ lp_pc = "call"
    /\ IF Len(lp_path) < 4
       THEN /\ lp_pc' = "done"
            /\ lp_result' = lp_path
            /\ UNCHANGED lp_points
       ELSE /\ lp_pc' = "loop"
            /\ lp_points' = lp_path
            /\ UNCHANGED lp_result
    /\ UNCHANGED <<lp_path, lp_width, lp_maxit, lp_iter, lp_broke>>
    /\ FrameBut("limit")

\* one iteration of `for iteration in range(max_iterations)`
LimitSweep ==
    /\ lp_pc = "loop"
    /\ ~lp_broke
    /\ SweepDue(lp_iter, lp_maxit)
    /\ LET r == Sweep(lp_points, lp_width)
       IN  /\ lp_points' = r[1]
           /\ lp_broke' = (r[2] < Tolerance)
    /\ lp_iter' = lp_iter + 1
    /\ UNCHANGED <<lp_path, lp_width, lp_maxit, lp_pc, lp_result>>
    /\ FrameBut("limit")

\* return [tuple(p) for p in points]
LimitReturn ==
    /\ lp_pc = "loop"
    /\ lp_broke \/ ~SweepDue(lp_iter, lp_maxit)
    /\ lp_pc' = "done"
    /\ lp_result' = lp_points
    /\ UNCHANGED <<lp_path, lp_width, lp_maxit, lp_points, lp_iter, lp_broke>>
    /\ FrameBut("limit")

LimitNext == LimitEnter \/ LimitSweep \/ LimitReturn

----------------------------------------------------------------------------
(* _get_adaptive_offsets *)

FullWidthFactor == 3    \* radius > half_width * 3: no shrinking
InnerFloor == 100       \* 0.1, the floor of the inner offset
InnerMargin == 100      \* 0.1, subtracted from 0.85 * radius
InnerPercent == 85      \* 0.85
TurnThreshold == 1000   \* 0.001 (a cross product: scale Scale * Scale)

\* the inside of the turn is chosen the wrong way round
GetAdaptiveOffsetsSwapped(curvature_radius, half_width, turn_direction) ==
    IF curvature_radius > half_width * FullWidthFactor
    THEN <<half_width, half_width>>
    ELSE LET safe_inner_offset ==
                 Max(InnerFloor, Min(half_width,
                     (curvature_radius * InnerPercent) \div 100 - InnerMargin))
         IN  IF turn_direction > TurnThreshold
             THEN <<half_width, safe_inner_offset>>
             ELSE IF turn_direction < -TurnThreshold
                  THEN <<safe_inner_offset, half_width>>
                  ELSE <<half_width, half_width>>

\* _get_adaptive_offsets: <<left_offset, right_offset>>
GetAdaptiveOffsets(curvature_radius, half_width, turn_direction) ==
    IF curvature_radius > half_width * FullWidthFactor
    THEN <<half_width, half_width>>
    ELSE LET safe_inner_offset ==
                 Max(InnerFloor, Min(half_width,
                     (curvature_radius * InnerPercent) \div 100 - InnerMargin))
         IN  IF turn_direction > TurnThreshold
             THEN <<safe_inner_offset, half_width>>
             ELSE IF turn_direction < -TurnThreshold
                  THEN <<half_width, safe_inner_offset>>
                  ELSE <<half_width, half_width>>

MaxRadiusStep == 12   \* finite radii are drawn from 0, 0.02, ... and multiples

\* radii in steps of 0.02 (so that 0.85 * radius is exact), around 3 * half_width
\* for every half width, and +infinity
OffsetRadii ==
    { 20 * k : k \in 0..MaxRadiusStep } \cup { 140, 160, 300, 1000, 1300, 2980, 3000, 3020,
      3640, 3660, 8980, 9000, 9020 } \cup { Infinity }

OffsetHalfWidths == { 50, 100, 1000, 3000 }

OffsetTurns == { -2000000, -1001, -1000, 0, 1000, 1001, 2000000 }

OffsetsInit ==
    /\ of_radius \in OffsetRadii
    /\ of_half \in OffsetHalfWidths
    /\ of_turn \in OffsetTurns
    /\ of_pc = "call"
    /\ of_result = << >>
    /\ IdleBut("offsets")

OffsetsCall ==
    /\ of_pc = "call"
    /\ of_result' = GetAdaptiveOffsets(of_radius, of_half, of_turn)
    /\ of_pc' = "done"
    /\ UNCHANGED <<of_radius, of_half, of_turn>>
    /\ FrameBut("offsets")

OffsetsNext == OffsetsCall

----------------------------------------------------------------------------
(* _compute_curvature_radius, _compute_curvature_radii, _compute_turn_directions,
   _compute_smooth_tangents *)

MinArea == 100          \* 0.0001 (an area: scale Scale * Scale)
RadiiWindow == 2        \* smoothing_window of _compute_curvature_radii
AngleRadius == 2        \* smooth_radius of the angle smoothing
MinWindow == 3          \* smoothing_window = max(3, n // 20)
WindowDivisor == 20
WeightUnit == 3 * 4 * 5  \* weights 1/offset are held as 60/offset (offset <= 6)

Dist2(p, q) == Sqrt((p[1] - q[1]) * (p[1] - q[1]) + (p[2] - q[2]) * (p[2] - q[2]))

\* the 2D cross product of p1 - p0 and p2 - p1 (scale Scale * Scale)
Cross(p0, p1, p2) ==
    (p1[1] - p0[1]) * (p2[2] - p1[2]) - (p1[2] - p0[2]) * (p2[1] - p1[1])

\* the circumradius with no threshold on the area: only a zero area is degenerate
ComputeCurvatureRadiusNoThreshold(path_points, index) ==
    IF Len(path_points) < 3
    THEN Infinity
    ELSE LET p0   == At(path_points, index - 1)
             p1   == At(path_points, index)
             p2   == At(path_points, index + 1)
             area == Abs(Cross(p0, p1, p2)) \div 2
         IN  IF area = 0
             THEN Infinity
             ELSE MulDiv(Dist2(p1, p2) * Dist2(p0, p2), Dist2(p0, p1), 4 * area)

\* _compute_curvature_radius: the circumradius a*b*c / (4*area).  Heron's area
\* s(s-a)(s-b)(s-c) is the square of |cross| / 2; it is taken from the cross
\* product, whose value fits 32 bits.
ComputeCurvatureRadius(path_points, index) ==
    IF Len(path_points) < 3
    THEN Infinity
    ELSE LET p0   == At(path_points, index - 1)
             p1   == At(path_points, index)
             p2   == At(path_points, index + 1)
             a    == Dist2(p1, p2)
             b    == Dist2(p0, p2)
             c    == Dist2(p0, p1)
             area == Abs(Cross(p0, p1, p2)) \div 2
         IN  IF area < MinArea
             THEN Infinity
             ELSE MulDiv(a * b, c, 4 * area)

\* min over `range(-smoothing_window, smoothing_window + 1)` from offset on
RECURSIVE WindowMin(_, _, _, _)
WindowMin(raw_radii, i, offset, last) ==
    IF offset > last
    THEN raw_radii[(i % Len(raw_radii)) + 1]
    ELSE Min(raw_radii[((i + offset) % Len(raw_radii)) + 1],
             WindowMin(raw_radii, i, offset + 1, last))

\* the raw radii, with no minimum over the window
ComputeCurvatureRadiiRaw(path_points, smoothing_window) ==
    List([k \in 1..Len(path_points) |-> ComputeCurvatureRadius(path_points, k - 1)])

\* _compute_curvature_radii(path_points, smoothing_window)
ComputeCurvatureRadii(path_points, smoothing_window) ==
    LET raw_radii == List([k \in 1..Len(path_points) |->
                              ComputeCurvatureRadius(path_points, k - 1)])
    IN  List([k \in 1..Len(path_points) |->
                 WindowMin(raw_radii, k - 1, -smoothing_window, smoothing_window)])

\* _compute_turn_directions
ComputeTurnDirections(path_points) ==
    List([k \in 1..Len(path_points) |->
             Cross(At(path_points, k - 2), At(path_points, k - 1), At(path_points, k))])

\* sum over offset in 1..window of (p[i+offset] - p[i-offset])[c] * (1/offset)
RECURSIVE WeightedDiff(_, _, _, _)
WeightedDiff(path_points, i, c, offset) ==
    IF offset = 0
    THEN 0
    ELSE (At(path_points, i + offset)[c] - At(path_points, i - offset)[c])
             * (WeightUnit \div offset)
         + WeightedDiff(path_points, i, c, offset - 1)

RECURSIVE WeightSum(_)
WeightSum(offset) ==
    IF offset = 0 THEN 0 ELSE WeightUnit \div offset + WeightSum(offset - 1)

\* the summed direction is normalised whatever its length
TangentUsableAlways(length) == TRUE

\* `if length > 0.001`: the summed direction is long enough to be normalised
TangentUsable(length) == length > MinSegment

\* the length of the summed direction at sample i
RawLength(path_points, i, smoothing_window) ==
    LET tx == WeightedDiff(path_points, i, 1, smoothing_window) \div WeightSum(smoothing_window)
        ty == WeightedDiff(path_points, i, 2, smoothing_window) \div WeightSum(smoothing_window)
    IN  Sqrt(tx * tx + ty * ty)

\* _compute_smooth_tangents divides by zero: `tx_sum /= weight_sum` with no
\* weight, or `tx_sum /= length` with a zero length
TangentsRaise(path_points, smoothing_window) ==
    \E i \in 0..(Len(path_points) - 1) :
        \/ smoothing_window >= 1 /\ WeightSum(smoothing_window) <= 0
        \/ /\ TangentUsable(RawLength(path_points, i, smoothing_window))
           /\ RawLength(path_points, i, smoothing_window) = 0

\* _compute_curvature_radius divides by zero: (a * b * c) / (4 * area) is reached
\* with a zero area
RadiiRaise(path_points) ==
    /\ Len(path_points) >= 3
    /\ \E i \in 0..(Len(path_points) - 1) :
           LET area == Abs(Cross(At(path_points, i - 1), At(path_points, i),
                                 At(path_points, i + 1))) \div 2
           IN  ~(area < MinArea) /\ 4 * area = 0

\* _compute_turn_directions only subtracts and multiplies
TurnDirectionsRaise(path_points) == FALSE

\* the first pass at sample i: the raw tangent <<tx, ty>> (scale AngleScale)
RawTangent(path_points, i, smoothing_window) ==
    LET tx == WeightedDiff(path_points, i, 1, smoothing_window) \div WeightSum(smoothing_window)
        ty == WeightedDiff(path_points, i, 2, smoothing_window) \div WeightSum(smoothing_window)
        length == Sqrt(tx * tx + ty * ty)
    IN  IF TangentUsable(length)
        THEN <<(tx * AngleScale) \div length, (ty * AngleScale) \div length>>
        ELSE <<AngleScale, 0>>

\* sum over offset in first..last of adjusted angle * weight, weight = 6/(1+|offset|)
RECURSIVE AngleSum(_, _, _, _)
AngleSum(angles, i, offset, last) ==
    IF offset > last
    THEN 0
    ELSE LET base == angles[(i % Len(angles)) + 1]
             diff == angles[((i + offset) % Len(angles)) + 1] - base
             adj  == IF diff > PiA THEN diff - 2 * PiA
                     ELSE IF diff < -PiA THEN diff + 2 * PiA ELSE diff
         IN  (base + adj) * (6 \div (1 + Abs(offset)))
             + AngleSum(angles, i, offset + 1, last)

\* _compute_smooth_tangents(path_points, smoothing_window): unit tangents
ComputeSmoothTangents(path_points, smoothing_window) ==
    LET raw    == List([k \in 1..Len(path_points) |->
                           RawTangent(path_points, k - 1, smoothing_window)])
        angles == List([k \in 1..Len(path_points) |-> Atan2(raw[k][2], raw[k][1])])
    IN  List([k \in 1..Len(path_points) |->
                 LET avg_angle == AngleSum(angles, k - 1, -AngleRadius, AngleRadius) \div 16
                 IN  <<Cos(avg_angle), Sin(avg_angle)>>])

----------------------------------------------------------------------------
(* _create_track_along_path *)

MinPathPoints == 3      \* a shorter path is rejected

SmoothingWindow(n) == Max(MinWindow, n \div WindowDivisor)

\* the four vertices [left_top, right_top, right_bottom, left_bottom] of every
\* sample of the roadway
TrackSections(path_points, width, thickness, adaptive_width) ==
    LET n          == Len(path_points)
        tangents   == ComputeSmoothTangents(path_points, SmoothingWindow(n))
        half_width == width \div 2
        radii      == ComputeCurvatureRadii(path_points, RadiiWindow)
        turns      == ComputeTurnDirections(path_points)
    IN  List([k \in 1..n |->
            LET x   == path_points[k][1]
                y   == path_points[k][2]
                z   == path_points[k][3]
                px  == -tangents[k][2]
                py  == tangents[k][1]
                off == IF adaptive_width
                       THEN GetAdaptiveOffsets(radii[k], half_width, turns[k])
                       ELSE <<half_width, half_width>>
                lx  == x + (px * off[1]) \div AngleScale
                ly  == y + (py * off[1]) \div AngleScale
                rx  == x - (px * off[2]) \div AngleScale
                ry  == y - (py * off[2]) \div AngleScale
            IN  << <<lx, ly, z + thickness>>, <<rx, ry, z + thickness>>,
                   <<rx, ry, z>>, <<lx, ly, z>> >>])

\* the number bm.verts gives corner c (0..3) of section i (0-based)
Vertex(i, c) == 4 * i + c + 1

\* the last span is not stitched back to the first section
NextSectionNoWrap(i, n) == Min(i + 1, n - 1)

\* j = (i + 1) % n
NextSection(i, n) == (i + 1) % n

\* the four quads of a span with the top quad wound the other way round
SpanFacesTopReversed(i, n) ==
    LET j == NextSection(i, n)
    IN  << <<Vertex(i, 1), Vertex(j, 1), Vertex(j, 0), Vertex(i, 0)>>,
           <<Vertex(i, 3), Vertex(i, 2), Vertex(j, 2), Vertex(j, 3)>>,
           <<Vertex(i, 3), Vertex(j, 3), Vertex(j, 0), Vertex(i, 0)>>,
           <<Vertex(i, 1), Vertex(j, 1), Vertex(j, 2), Vertex(i, 2)>> >>

\* the four quads of span (i, j): top, bottom, left side, right side
SpanFaces(i, n) ==
    LET j == NextSection(i, n)
    IN  << <<Vertex(i, 0), Vertex(j, 0), Vertex(j, 1), Vertex(i, 1)>>,
           <<Vertex(i, 3), Vertex(i, 2), Vertex(j, 2), Vertex(j, 3)>>,
           <<Vertex(i, 3), Vertex(j, 3), Vertex(j, 0), Vertex(i, 0)>>,
           <<Vertex(i, 1), Vertex(j, 1), Vertex(j, 2), Vertex(i, 2)>> >>

\* the strip is left open: one span fewer than samples
SpanCountOpen(n) == n - 1

\* `for i in range(n)`: the number of spans stitched
SpanCount(n) == n

\* mesh paths: loops of 3 to 8 samples, with a duplicate adjacent point, a
\* collinear run and a sharp corner among them, and paths too short to mesh
MeshPaths ==
    ShortPaths \cup
    { ShortLegPath, HairpinPath, OctagonPath,
      << Pt(0, 0), Pt(6000, 0), Pt(6000, 0), Pt(6000, 6000), Pt(0, 6000) >>,
      << Pt(0, 0), Pt(3000, 0), Pt(6000, 0), Pt(3000, 1000) >> }

MeshWidths == { 2000, 6000 }

MeshInit ==
    /\ mb_path \in MeshPaths
    /\ mb_width \in MeshWidths
    /\ mb_thickness = 300
    /\ mb_adaptive \in BOOLEAN
    /\ mb_objects = 0
    /\ mb_verts = << >>
    /\ mb_faces = << >>
    /\ mb_i = 0
    /\ mb_pc = "call"
    /\ IdleBut("mesh")

\* n = len(path_points); if n < 3: raise ValueError; create and link the object
MeshEnter ==
    /\ mb_pc = "call"
    /\ IF Len(mb_path) < MinPathPoints
       THEN /\ mb_pc' = "ValueError"
            /\ UNCHANGED mb_objects
       ELSE /\ mb_pc' = "sections"
            /\ mb_objects' = mb_objects + 1
    /\ UNCHANGED <<mb_path, mb_width, mb_thickness, mb_adaptive, mb_verts, mb_faces, mb_i>>
    /\ FrameBut("mesh")

\* one iteration of `for i, point in enumerate(path_points)`: four bm.verts.new
MeshAddSection ==
    /\ mb_pc = "sections"
    /\ mb_i < Len(mb_path)
    /\ mb_verts' = mb_verts \o
           TrackSections(mb_path, mb_width, mb_thickness, mb_adaptive)[mb_i + 1]
    /\ mb_i' = mb_i + 1
    /\ UNCHANGED <<mb_path, mb_width, mb_thickness, mb_adaptive, mb_objects, mb_faces, mb_pc>>
    /\ FrameBut("mesh")

\* bm.verts.ensure_lookup_table(), between the two loops
MeshSectionsDone ==
    /\ mb_pc = "sections"
    /\ mb_i >= Len(mb_path)
    /\ mb_pc' = "faces"
    /\ mb_i' = 0
    /\ UNCHANGED <<mb_path, mb_width, mb_thickness, mb_adaptive, mb_objects, mb_verts, mb_faces>>
    /\ FrameBut("mesh")

\* one iteration of `for i in range(n)`: four bm.faces.new
MeshAddSpan ==
    /\ mb_pc = "faces"
    /\ mb_i < SpanCount(Len(mb_path))
    /\ mb_faces' = mb_faces \o SpanFaces(mb_i, Len(mb_path))
    /\ mb_i' = mb_i + 1
    /\ UNCHANGED <<mb_path, mb_width, mb_thickness, mb_adaptive, mb_objects, mb_verts, mb_pc>>
    /\ FrameBut("mesh")

\* bm.to_mesh(mesh); return obj
MeshReturn ==
    /\ mb_pc = "faces"
    /\ mb_i >= SpanCount(Len(mb_path))
    /\ mb_pc' = "done"
    /\ UNCHANGED <<mb_path, mb_width, mb_thickness, mb_adaptive, mb_objects, mb_verts, mb_faces,
                   mb_i>>
    /\ FrameBut("mesh")

MeshNext == MeshEnter \/ MeshAddSection \/ MeshSectionsDone \/ MeshAddSpan \/ MeshReturn

----------------------------------------------------------------------------
(* generate_custom_path *)

MinWaypoints == 3       \* fewer control points are rejected
MaxMultiplier == 30000  \* 3.0, the cap of the adaptive multiplier

\* angle_diff of _estimate_section_curvature: |sin| of the angle between two
\* directions (scale AngleScale), 0 for a direction shorter than 0.001
AngleDiff(dx1, dy1, dx2, dy2) ==
    LET len1 == Sqrt(dx1 * dx1 + dy1 * dy1)
        len2 == Sqrt(dx2 * dx2 + dy2 * dy2)
    IN  IF len1 < MinSegment \/ len2 < MinSegment
        THEN 0
        ELSE Abs(((dx1 * AngleScale) \div len1) * ((dy2 * AngleScale) \div len2)
                 - ((dy1 * AngleScale) \div len1) * ((dx2 * AngleScale) \div len2))
             \div AngleScale

\* _estimate_section_curvature(p0, p1, p2, p3)
EstimateSectionCurvature(p0, p1, p2, p3) ==
    Max(AngleDiff(p1[1] - p0[1], p1[2] - p0[2], p2[1] - p1[1], p2[2] - p1[2]),
        AngleDiff(p2[1] - p1[1], p2[2] - p1[2], p3[1] - p2[1], p3[2] - p2[2]))

\* catmull_rom(p0, p1, p2, p3, t), t in AngleScale
CatmullRom(p0, p1, p2, p3, t) ==
    LET t2 == (t * t) \div AngleScale
        t3 == (t2 * t) \div AngleScale
    IN  (2 * p1
         + ((-p0 + p2) * t) \div AngleScale
         + ((2 * p0 - 5 * p1 + 4 * p2 - p3) * t2) \div AngleScale
         + ((-p0 + 3 * p1 - 3 * p2 + p3) * t3) \div AngleScale) \div 2

\* actual_segments of section i with the multiplier curvature * 2.0
ActualSegmentsNoBase(waypoints, i, segments_per_section, adaptive_subdivision) ==
    IF adaptive_subdivision
    THEN LET curvature == EstimateSectionCurvature(At(waypoints, i - 1), At(waypoints, i),
                                                   At(waypoints, i + 1), At(waypoints, i + 2))
         IN  TruncDiv(segments_per_section * Min(MaxMultiplier, curvature * 2), AngleScale)
    ELSE segments_per_section

\* actual_segments of section i
ActualSegments(waypoints, i, segments_per_section, adaptive_subdivision) ==
    IF adaptive_subdivision
    THEN LET curvature == EstimateSectionCurvature(At(waypoints, i - 1), At(waypoints, i),
                                                   At(waypoints, i + 1), At(waypoints, i + 2))
             curvature_multiplier == AngleScale + curvature * 2
         IN  TruncDiv(segments_per_section * Min(MaxMultiplier, curvature_multiplier),
                      AngleScale)
    ELSE segments_per_section

\* the samples of section i taken at t = 1/actual_segments, ..., 1
SectionPointsToEnd(waypoints, heights, i, actual_segments) ==
    LET p0 == At(waypoints, i - 1)
        p1 == At(waypoints, i)
        p2 == At(waypoints, i + 1)
        p3 == At(waypoints, i + 2)
    IN  [k \in 1..Max(0, actual_segments) |->
            LET t == (k * AngleScale) \div actual_segments
            IN  << CatmullRom(p0[1], p1[1], p2[1], p3[1], t),
                   CatmullRom(p0[2], p1[2], p2[2], p3[2], t),
                   CatmullRom(At(heights, i - 1), At(heights, i),
                              At(heights, i + 1), At(heights, i + 2), t) >>]

\* the samples of section i: `for j in range(actual_segments)`
SectionPoints(waypoints, heights, i, actual_segments) ==
    LET p0 == At(waypoints, i - 1)
        p1 == At(waypoints, i)
        p2 == At(waypoints, i + 1)
        p3 == At(waypoints, i + 2)
    IN  [k \in 1..Max(0, actual_segments) |->
            LET t == ((k - 1) * AngleScale) \div actual_segments
            IN  << CatmullRom(p0[1], p1[1], p2[1], p3[1], t),
                   CatmullRom(p0[2], p1[2], p2[2], p3[2], t),
                   CatmullRom(At(heights, i - 1), At(heights, i),
                              At(heights, i + 1), At(heights, i + 2), t) >>]

\* `for i in range(n)` from section i on
RECURSIVE SectionsFrom(_, _, _, _, _)
SectionsFrom(waypoints, heights, segments_per_section, adaptive_subdivision, i) ==
    IF i >= Len(waypoints)
    THEN << >>
    ELSE SectionPoints(waypoints, heights, i,
                       ActualSegments(waypoints, i, segments_per_section,
                                      adaptive_subdivision))
         \o SectionsFrom(waypoints, heights, segments_per_section,
                         adaptive_subdivision, i + 1)

\* the rejection test is off by one
TooFewWaypointsOffByOne(n) == n < MinWaypoints - 1

\* `if n < 3: raise ValueError`
TooFewWaypoints(n) == n < MinWaypoints

\* generate_custom_path: [error |-> ..., points |-> ...]
GenerateCustomPath(waypoints, height_profile, segments_per_section, adaptive_subdivision) ==
    IF TooFewWaypoints(Len(waypoints))
    THEN [error |-> "ValueError", points |-> << >>]
    ELSE LET heights == IF height_profile = << >>
                        THEN [k \in 1..Len(waypoints) |-> 0]
                        ELSE height_profile
         IN  [error |-> "none",
              points |-> SectionsFrom(waypoints, heights, segments_per_section,
                                      adaptive_subdivision, 0)]

MaxWaypoints == 5   \* control-point lists have 0..MaxWaypoints points
MaxSegments == 4    \* segments_per_section is drawn from -1..MaxSegments

\* control points: a convex loop, a loop with a duplicate adjacent point and a
\* collinear run, and a loop with a reversal
WaypointPool ==
    { << <<0, 0>>, <<8000, 0>>, <<8000, 6000>>, <<0, 6000>>, <<-3000, 3000>>, <<-2000, 1000>> >>,
      << <<0, 0>>, <<0, 0>>, <<4000, 0>>, <<8000, 0>>, <<8000, 5000>>, <<0, 5000>> >>,
      << <<0, 0>>, <<6000, 0>>, <<1000, 500>>, <<6000, 1000>>, <<0, 4000>>, <<-1000, 2000>> >> }

WaypointLists == { SubSeq(w, 1, n) : w \in WaypointPool, n \in 0..MaxWaypoints }

HeightsFor(n) == { << >>, [k \in 1..n |-> 500 * (k % 3)] }

GenerateInit ==
    /\ gc_waypoints \in WaypointLists
    /\ gc_heights \in HeightsFor(Len(gc_waypoints))
    /\ gc_segments \in -1..MaxSegments
    /\ gc_adaptive \in BOOLEAN
    /\ gc_pc = "call"
    /\ gc_result = << >>
    /\ IdleBut("generate")

GenerateCall ==
    /\ gc_pc = "call"
    /\ LET r == GenerateCustomPath(gc_waypoints, gc_heights, gc_segments, gc_adaptive)
       IN  /\ gc_pc' = IF r.error = "none" THEN "done" ELSE r.error
           /\ gc_result' = r.points
    /\ UNCHANGED <<gc_waypoints, gc_heights, gc_segments, gc_adaptive>>
    /\ FrameBut("generate")

GenerateNext == GenerateCall

----------------------------------------------------------------------------
(* _resample_path_uniform *)

\* segment_lengths: the length of segment (i, i+1 mod n), 3D
SegmentLengths(path) ==
    List([k \in 1..Len(path) |->
             LET p == path[k]
                 q == At(path, k)
             IN  Sqrt((q[1] - p[1]) * (q[1] - p[1]) + (q[2] - p[2]) * (q[2] - p[2])
                      + (q[3] - p[3]) * (q[3] - p[3]))])

\* lens[k] + ... + lens[last]
RECURSIVE SumBlock(_, _, _)
SumBlock(lens, k, last) == IF k > last THEN 0 ELSE lens[k] + SumBlock(lens, k + 1, last)

\* the sum of lens from index k on, LoopBlock at a time
RECURSIVE SumFrom(_, _)
SumFrom(lens, k) ==
    IF k > Len(lens)
    THEN 0
    ELSE SumBlock(lens, k, Min(k + LoopBlock - 1, Len(lens))) + SumFrom(lens, k + LoopBlock)

\* total_length
TotalLength(path) == SumFrom(SegmentLengths(path), 1)

\* target_points with the quotient rounded up
TargetPointsRoundedUp(path, spacing_given, target_spacing, min_points) ==
    IF spacing_given
    THEN Max(min_points, IF target_spacing > 0
                         THEN (TotalLength(path) + target_spacing - 1) \div target_spacing
                         ELSE -(TotalLength(path) \div (-target_spacing)))
    ELSE Max(min_points, Max(Len(path), (TotalLength(path) + 2 * Scale - 1) \div (2 * Scale)))

\* target_points; target_spacing None is spacing_given = FALSE
TargetPoints(path, spacing_given, target_spacing, min_points) ==
    IF spacing_given
    THEN Max(min_points, IF target_spacing > 0
                         THEN TotalLength(path) \div target_spacing
                         ELSE -(TotalLength(path) \div (-target_spacing)))
    ELSE Max(min_points, Max(Len(path), TotalLength(path) \div (2 * Scale)))

\* the `while` at the head of the sampling loop: <<current_segment, segment_progress>>
RECURSIVE Advance(_, _, _)
Advance(lens, current_segment, segment_progress) ==
    IF /\ segment_progress >= lens[current_segment + 1]
       /\ lens[current_segment + 1] > MinSegment
    THEN Advance(lens, (current_segment + 1) % Len(lens),
                 segment_progress - lens[current_segment + 1])
    ELSE <<current_segment, segment_progress>>

\* one iteration of `for _ in range(target_points)` on the loop state
\* <<current_segment, segment_progress, resampled>>
ResampleStep(path, lens, spacing, st) ==
    LET a   == Advance(lens, st[1], st[2])
        len == lens[a[1] + 1]
        pi  == At(path, a[1])
        pj  == At(path, a[1] + 1)
        at(c) == IF len > MinSegment
                 THEN pi[c] + ((pj[c] - pi[c]) * a[2]) \div len
                 ELSE pi[c]
        pt  == <<at(1), at(2), at(3)>>
    IN  <<a[1], a[2] + spacing, Append(st[3], pt)>>

\* `count` iterations of `for _ in range(target_points)`
RECURSIVE ResampleBlock(_, _, _, _, _)
ResampleBlock(path, lens, spacing, count, st) ==
    IF count <= 0 \/ Len(st[3]) < 0
    THEN st
    ELSE ResampleBlock(path, lens, spacing, count - 1, ResampleStep(path, lens, spacing, st))

\* `count` iterations of `for _ in range(target_points)`, LoopBlock at a time
RECURSIVE ResampleFrom(_, _, _, _, _)
ResampleFrom(path, lens, spacing, count, st) ==
    IF count <= 0 \/ Len(st[3]) < 0
    THEN st
    ELSE ResampleFrom(path, lens, spacing, count - LoopBlock,
                      ResampleBlock(path, lens, spacing, Min(count, LoopBlock), st))

\* int(total_length / target_spacing) with target_spacing = 0
ResampleRaises(path, spacing_given, target_spacing) ==
    Len(path) >= 3 /\ spacing_given /\ target_spacing = 0

\* _resample_path_uniform(path, target_spacing, min_points), when it returns
ResamplePathUniform(path, spacing_given, target_spacing, min_points) ==
    IF Len(path) < 3
    THEN path
    ELSE LET target_points == TargetPoints(path, spacing_given, target_spacing, min_points)
         IN  ResampleFrom(path, SegmentLengths(path), TotalLength(path) \div target_points,
                          target_points, <<0, 0, << >> >>)[3]

----------------------------------------------------------------------------
(* _limit_path_curvature as a function, as the pipeline calls it *)

DefaultMaxIterations == 50

\* the iterations from `iter` on: the points at the `break` or at the cap
RECURSIVE LimitLoop(_, _, _, _)
LimitLoop(points, track_width, iter, maxit) ==
    IF ~SweepDue(iter, maxit)
    THEN points
    ELSE LET r == Sweep(points, track_width)
         IN  IF r[2] < Tolerance
             THEN r[1]
             ELSE LimitLoop(r[1], track_width, iter + 1, maxit)

\* segment_length / (2 * half_width) with track_width = 0: reached at the first
\* sample whose two segments are both 0.001 or longer
LimitRaises(path, track_width, maxit) ==
    /\ track_width = 0
    /\ Len(path) >= 4
    /\ maxit >= 1
    /\ \E i \in 0..(Len(path) - 1) : GetTurnAngle(path, i)[2] >= MinSegment

LimitPathCurvature(path, track_width, maxit) ==
    IF Len(path) < 4
    THEN path
    ELSE LET points == LimitLoop(path, track_width, 0, maxit)
         IN  List([k \in 1..Len(points) |-> <<points[k][1], points[k][2], points[k][3]>>])

----------------------------------------------------------------------------
(* the mesh builders as functions: the object each one links into the scene *)

\* bm.verts in allocation order, from the sections
SectionVerts(sections) ==
    [k \in 1..(4 * Len(sections)) |-> sections[((k - 1) \div 4) + 1][((k - 1) % 4) + 1]]

\* bm.faces in creation order
StripFaces(n) ==
    [k \in 1..(4 * SpanCount(n)) |-> SpanFaces((k - 1) \div 4, n)[((k - 1) % 4) + 1]]

\* _create_track_along_path for n >= 3
CreateTrackAlongPath(name, path_points, width, thickness, adaptive_width) ==
    [name  |-> name,
     verts |-> SectionVerts(TrackSections(path_points, width, thickness, adaptive_width)),
     faces |-> StripFaces(Len(path_points))]

\* a barrier whose centre line is at the `offset` argument at every sample, the
\* adaptive rule of the roadway left out
BarrierSectionsFixedOffset(path_points, offset, width, height, base_height, track_half_width, adaptive_offset) ==
    LET n          == Len(path_points)
        tangents   == ComputeSmoothTangents(path_points, SmoothingWindow(n))
        half_width == width \div 2
    IN  List([k \in 1..n |->
            LET px  == -tangents[k][2]
                py  == tangents[k][1]
                cx  == path_points[k][1] + (px * offset) \div AngleScale
                cy  == path_points[k][2] + (py * offset) \div AngleScale
                cz  == path_points[k][3] + base_height
                ox  == cx + (px * half_width) \div AngleScale
                oy  == cy + (py * half_width) \div AngleScale
                ix  == cx - (px * half_width) \div AngleScale
                iy  == cy - (py * half_width) \div AngleScale
            IN  << <<ox, oy, cz + height>>, <<ix, iy, cz + height>>,
                   <<ix, iy, cz>>, <<ox, oy, cz>> >>])

\* the four vertices [outer_top, inner_top, inner_bottom, outer_bottom] of every
\* sample of a barrier; adaptive_offset is `adaptive_offset and track_half_width
\* is not None`
BarrierSections(path_points, offset, width, height, base_height, track_half_width, adaptive_offset) ==
    LET n          == Len(path_points)
        tangents   == ComputeSmoothTangents(path_points, SmoothingWindow(n))
        radii      == ComputeCurvatureRadii(path_points, RadiiWindow)
        turns      == ComputeTurnDirections(path_points)
        half_width == width \div 2
    IN  List([k \in 1..n |->
            LET px  == -tangents[k][2]
                py  == tangents[k][1]
                off == GetAdaptiveOffsets(radii[k], track_half_width, turns[k])
                actual_offset == IF adaptive_offset
                                 THEN IF offset > 0
                                      THEN off[1] + half_width
                                      ELSE -(off[2] + half_width)
                                 ELSE offset
                cx  == path_points[k][1] + (px * actual_offset) \div AngleScale
                cy  == path_points[k][2] + (py * actual_offset) \div AngleScale
                cz  == path_points[k][3] + base_height
                ox  == cx + (px * half_width) \div AngleScale
                oy  == cy + (py * half_width) \div AngleScale
                ix  == cx - (px * half_width) \div AngleScale
                iy  == cy - (py * half_width) \div AngleScale
            IN  << <<ox, oy, cz + height>>, <<ix, iy, cz + height>>,
                   <<ix, iy, cz>>, <<ox, oy, cz>> >>])

\* _create_barrier_along_path
CreateBarrierAlongPath(name, path_points, offset, width, height, base_height, track_half_width, adaptive_offset) ==
    [name  |-> name,
     verts |-> SectionVerts(BarrierSections(path_points, offset, width, height, base_height,
                                            track_half_width, adaptive_offset)),
     faces |-> StripFaces(Len(path_points))]

----------------------------------------------------------------------------
(* generate_figure8_path *)

\* _smooth_step: Hermite interpolation of t clamped to [0, 1] (scale AngleScale)
SmoothStep(t) ==
    LET c == Max(0, Min(AngleScale, t))
    IN  (((c * c) \div AngleScale) * (3 * AngleScale - 2 * c)) \div AngleScale

RECURSIVE HeightSum(_, _, _, _)
\* z_sum += points[(i + j) % n][2] for j in range(from, window + 1); i is 0-based
HeightSum(points, i, from, window) ==
    IF from > window THEN 0
    ELSE points[((i + from) % Len(points)) + 1][3] + HeightSum(points, i, from + 1, window)

\* _smooth_height_transitions: new_z = 0.7 * orig_z + 0.3 * avg_z
SmoothHeightTransitions(points, window) ==
    List([k \in 1..Len(points) |->
            LET avg_z == TruncDiv(HeightSum(points, k - 1, -window, window), 2 * window + 1)
            IN  <<points[k][1], points[k][2], TruncDiv(7 * points[k][3] + 3 * avg_z, 10)>>])

HeightWindow == 8               \* window=8
LemniscateTenths == 18          \* a = size * 1.8
CrossTenths == 4                \* cross_zone = a * 0.4
RampTenths == 3                 \* ramp_zone = a * 0.3

\* generate_figure8_path: Bernoulli's lemniscate with the first half raised over
\* the crossing
GenerateFigure8Path(size, bridge_height, segments) ==
    LET a          == (size * LemniscateTenths) \div 10
        cross_zone == (a * CrossTenths) \div 10
        ramp_zone  == (a * RampTenths) \div 10
        raw(i)     == LET t     == (2 * PiA * i) \div segments
                          denom == AngleScale + (Sin(t) * Sin(t)) \div AngleScale
                      IN  <<TruncDiv(a * Cos(t), denom),
                            TruncDiv(a * TruncDiv(Sin(t) * Cos(t), AngleScale), denom)>>
        factor(d)  == IF d < cross_zone THEN AngleScale
                      ELSE AngleScale - SmoothStep(((d - cross_zone) * AngleScale) \div ramp_zone)
        z(i)       == LET d == Abs(raw(i)[1])
                      IN  IF d < cross_zone + ramp_zone /\ 2 * i < segments
                          THEN (bridge_height * factor(d)) \div AngleScale
                          ELSE 0
        points     == List([k \in 1..segments |-> <<raw(k - 1)[1], raw(k - 1)[2], z(k - 1)>>])
    IN  SmoothHeightTransitions(points, HeightWindow)

----------------------------------------------------------------------------
(* create_track_from_path, create_custom_track and create_figure8_track: one step
   per stage *)

ResampleMinPoints == 100        \* min_points=100
SpacingDivisor == 3             \* target_spacing = track_width / 3
BarrierHeight == 600            \* barrier_height = 0.6
BarrierWidth == 120             \* barrier_width = 0.12
DefaultSegments == 16           \* segments_per_section = 16

\* a square with its second corner given twice
DuplicateCornerPath ==
    << Pt(0, 0), Pt(6000, 0), Pt(6000, 0), Pt(6000, 6000), Pt(0, 6000) >>

SquarePath == << Pt(0, 0), Pt(6000, 0), Pt(6000, 6000), Pt(0, 6000) >>

PipelinePaths ==
    { << Pt(0, 0), Pt(4000, 0) >>, SquarePath, DuplicateCornerPath, OctagonPath }

PipelineWaypoints ==
    { << <<0, 0>>, <<4000, 0>> >>, << <<0, 0>>, <<6000, 0>>, <<3000, 5000>> >> }

PipelineWidths == { 6000, 0, -6000 }

PipelineThicknesses == { 300, 0 }

PipelineLocations == { <<0, 0, 0>>, <<1000, -2000, 500>> }

\* size, bridge_height and segments of create_figure8_track
PipelineFigure8s == { <<5000, 4000, 12>>, <<4000, 0, 8>> }

\* the locals of an entry point at its call, and the caller's record of runs
PipelineCall ==
    /\ pl_path = << >>
    /\ pl_objects = << >>
    /\ pl_pc = "call"
    /\ pl_alias = FALSE
    /\ pl_scene = << >>
    /\ pl_log = << >>
    /\ pl_run = 1
    /\ pl_first = [pc |-> "none", log |-> << >>, objects |-> << >>]

PipelineInit ==
    /\ \/ /\ pl_fn = "create_track_from_path"
          /\ pl_input \in PipelinePaths
          /\ pl_resample \in BOOLEAN
       \/ /\ pl_fn = "create_custom_track"
          /\ pl_input \in PipelineWaypoints
          /\ pl_resample = TRUE
       \/ /\ pl_fn = "create_figure8_track"
          /\ pl_input \in PipelineFigure8s
          /\ pl_resample = TRUE
    /\ pl_width \in PipelineWidths
    /\ pl_thickness \in PipelineThicknesses
    /\ pl_barriers \in BOOLEAN
    /\ pl_location \in PipelineLocations
    /\ PipelineCall
    /\ IdleBut("pipeline")

\* the arguments other than the caller's list, and the caller's record
PipelineFrame ==
    /\ UNCHANGED <<pl_fn, pl_width, pl_thickness, pl_barriers, pl_resample, pl_location,
                   pl_run, pl_first>>
    /\ FrameBut("pipeline")

\* a stage's entry in the log
Logged(stage, path) == Append(pl_log, [stage |-> stage, path |-> path])

\* the samples the caller's list holds after _limit_path_curvature relaxed
\* `points` in place: the caller's own list is relaxed
CallerListAliased(path, points) == points

\* the samples the caller's list holds after _limit_path_curvature relaxed
\* `points`: `points = [list(p) for p in path]` is a copy, `path` keeps its samples
CallerList(path, points) == path

\* objects.insert(0, obj): the new object goes in front
Prepended(objects, obj) == <<obj>> \o objects

\* objects.append(obj)
Appended(objects, obj) == Append(objects, obj)

\* create_track_from_path: objects = []; x, y, z = location
PipelineEnterFromPath ==
    /\ pl_pc = "call"
    /\ pl_fn = "create_track_from_path"
    /\ pl_path' = pl_input
    /\ pl_alias' = TRUE
    /\ pl_pc' = "entered"
    /\ UNCHANGED <<pl_input, pl_objects, pl_scene, pl_log>>
    /\ PipelineFrame

\* create_custom_track: path_points = generate_custom_path(waypoints, height_profile,
\* segments_per_section)
PipelineGenerate ==
    /\ pl_pc = "call"
    /\ pl_fn = "create_custom_track"
    /\ LET g == GenerateCustomPath(pl_input, << >>, DefaultSegments, TRUE)
       IN  IF g.error = "none"
           THEN /\ pl_path' = g.points
                /\ pl_pc' = "entered"
                /\ pl_log' = Logged("generate", g.points)
           ELSE /\ pl_path' = pl_path
                /\ pl_pc' = g.error
                /\ pl_log' = pl_log
    /\ UNCHANGED <<pl_input, pl_objects, pl_scene, pl_alias>>
    /\ PipelineFrame

\* create_figure8_track: path_points = generate_figure8_path(size, bridge_height,
\* segments)
PipelineFigure8 ==
    /\ pl_pc = "call"
    /\ pl_fn = "create_figure8_track"
    /\ pl_path' = GenerateFigure8Path(pl_input[1], pl_input[2], pl_input[3])
    /\ pl_log' = Logged("generate", pl_path')
    /\ pl_pc' = "entered"
    /\ UNCHANGED <<pl_input, pl_objects, pl_scene, pl_alias>>
    /\ PipelineFrame

\* if resample: path = _resample_path_uniform(path, track_width / 3, 100)
PipelineResample ==
    /\ pl_pc = "entered"
    /\ LET spacing == pl_width \div SpacingDivisor
       IN  IF ~pl_resample
           THEN /\ pl_path' = pl_path
                /\ pl_pc' = "resampled"
                /\ pl_log' = pl_log
                /\ pl_alias' = pl_alias
           ELSE IF ResampleRaises(pl_path, TRUE, spacing)
                THEN /\ pl_path' = pl_path
                     /\ pl_pc' = "ZeroDivisionError"
                     /\ pl_log' = pl_log
                     /\ pl_alias' = pl_alias
                ELSE /\ pl_path' = ResamplePathUniform(pl_path, TRUE, spacing, ResampleMinPoints)
                     /\ pl_pc' = "resampled"
                     /\ pl_log' = Logged("resample", pl_path')
                     /\ pl_alias' = (pl_alias /\ Len(pl_path) < 3)
    /\ UNCHANGED <<pl_input, pl_objects, pl_scene>>
    /\ PipelineFrame

\* path = _limit_path_curvature(path, track_width)
PipelineLimit ==
    /\ pl_pc = "resampled"
    /\ IF LimitRaises(pl_path, pl_width, DefaultMaxIterations)
       THEN /\ pl_path' = pl_path
            /\ pl_pc' = "ZeroDivisionError"
            /\ pl_log' = pl_log
            /\ pl_alias' = pl_alias
            /\ pl_input' = pl_input
       ELSE /\ pl_path' = LimitPathCurvature(pl_path, pl_width, DefaultMaxIterations)
            /\ pl_pc' = "limited"
            /\ pl_log' = Logged("limit", pl_path')
            /\ pl_alias' = (pl_alias /\ Len(pl_path) < 4)
            /\ pl_input' = IF pl_alias /\ Len(pl_path) >= 4
                           THEN CallerList(pl_input, pl_path')
                           ELSE pl_input
    /\ UNCHANGED <<pl_objects, pl_scene>>
    /\ PipelineFrame

\* the samples moved by `location` with x and y exchanged
TranslatePathSwapped(path, location) ==
    List([k \in 1..Len(path) |->
        <<path[k][1] + location[2], path[k][2] + location[1], path[k][3] + location[3]>>])

\* [(px + x, py + y, pz + z) for px, py, pz in path]
TranslatePath(path, location) ==
    List([k \in 1..Len(path) |->
        <<path[k][1] + location[1], path[k][2] + location[2], path[k][3] + location[3]>>])

\* offset_path = [(px + x, py + y, pz + z) for px, py, pz in path]
PipelineTranslate ==
    /\ pl_pc = "limited"
    /\ pl_path' = TranslatePath(pl_path, pl_location)
    /\ pl_log' = Logged("translate", pl_path')
    /\ pl_pc' = "translated"
    /\ pl_alias' = FALSE
    /\ UNCHANGED <<pl_input, pl_objects, pl_scene>>
    /\ PipelineFrame

\* the roadway builder with its length test after the creation of the mesh and
\* the object: a rejected path leaves an object in the scene
PipelineSurfaceLinksFirst ==
    /\ pl_pc = "translated"
    /\ IF Len(pl_path) < MinPathPoints
       THEN /\ pl_objects' = pl_objects
            /\ pl_pc' = "ValueError"
       ELSE /\ pl_objects' = Appended(pl_objects,
                   CreateTrackAlongPath("Surface", pl_path, pl_width, pl_thickness, TRUE))
            /\ pl_pc' = "surface"
    /\ pl_scene' = Append(pl_scene, "Surface")
    /\ pl_log' = Logged("surface", pl_path)
    /\ UNCHANGED <<pl_input, pl_path, pl_alias>>
    /\ PipelineFrame

\* track_surface = _create_track_along_path(...); objects.append(track_surface)
PipelineSurface ==
    /\ pl_pc = "translated"
    /\ IF Len(pl_path) < MinPathPoints
       THEN /\ pl_objects' = pl_objects
            /\ pl_scene' = pl_scene
            /\ pl_pc' = "ValueError"
       ELSE /\ pl_objects' = Appended(pl_objects,
                   CreateTrackAlongPath("Surface", pl_path, pl_width, pl_thickness, TRUE))
            /\ pl_scene' = Append(pl_scene, "Surface")
            /\ pl_pc' = "surface"
    /\ pl_log' = Logged("surface", pl_path)
    /\ UNCHANGED <<pl_input, pl_path, pl_alias>>
    /\ PipelineFrame

\* outer_barrier = _create_barrier_along_path(...); objects.append(outer_barrier)
PipelineOuterBarrier ==
    /\ pl_pc = "surface"
    /\ pl_barriers
    /\ LET half_width == pl_width \div 2
       IN  pl_objects' = Appended(pl_objects,
               CreateBarrierAlongPath("Outer_Barrier", pl_path,
                   half_width + BarrierWidth \div 2, BarrierWidth, BarrierHeight,
                   pl_thickness, half_width, TRUE))
    /\ pl_scene' = Append(pl_scene, "Outer_Barrier")
    /\ pl_log' = Logged("outer", pl_path)
    /\ pl_pc' = "outer"
    /\ UNCHANGED <<pl_input, pl_path, pl_alias>>
    /\ PipelineFrame

\* inner_barrier = _create_barrier_along_path(...); objects.append(inner_barrier)
PipelineInnerBarrier ==
    /\ pl_pc = "outer"
    /\ LET half_width == pl_width \div 2
       IN  pl_objects' = Appended(pl_objects,
               CreateBarrierAlongPath("Inner_Barrier", pl_path,
                   -(half_width + BarrierWidth \div 2), BarrierWidth, BarrierHeight,
                   pl_thickness, half_width, TRUE))
    /\ pl_scene' = Append(pl_scene, "Inner_Barrier")
    /\ pl_log' = Logged("inner", pl_path)
    /\ pl_pc' = "inner"
    /\ UNCHANGED <<pl_input, pl_path, pl_alias>>
    /\ PipelineFrame

\* return objects
PipelineReturn ==
    /\ \/ pl_pc = "inner"
       \/ pl_pc = "surface" /\ ~pl_barriers
    /\ pl_pc' = "returned"
    /\ UNCHANGED <<pl_input, pl_path, pl_objects, pl_alias, pl_scene, pl_log>>
    /\ PipelineFrame

PipelineNext ==
    \/ PipelineEnterFromPath
    \/ PipelineGenerate
    \/ PipelineFigure8
    \/ PipelineResample
    \/ PipelineLimit
    \/ PipelineTranslate
    \/ PipelineSurface
    \/ PipelineOuterBarrier
    \/ PipelineInnerBarrier
    \/ PipelineReturn

----------------------------------------------------------------------------
(* _resample_path_uniform, one step per emitted sample *)

\* `min_points` is drawn from {MinPathPoints, MaxMinPoints} and the pipeline's 100
MaxMinPoints == 8

\* a triangle that climbs and descends
ClimbingTriangle == << <<0, 0, 0>>, <<8000, 0, 1500>>, <<4000, 6000, 3000>> >>

\* four samples at one place
PointPath == << Pt(2000, 1000), Pt(2000, 1000), Pt(2000, 1000), Pt(2000, 1000) >>

\* a square whose first corner is given twice
DuplicateStartPath == << Pt(0, 0), Pt(0, 0), Pt(6000, 0), Pt(6000, 6000), Pt(0, 6000) >>

ResamplePaths ==
    { << Pt(0, 0), Pt(4000, 0) >>, SquarePath, ClimbingTriangle, DuplicateCornerPath,
      DuplicateStartPath, PointPath }

ResampleSpacings == { 2000, 5000, 0 }

ResampleInit ==
    /\ rs_path \in ResamplePaths
    /\ \/ rs_given = FALSE /\ rs_spacing = 0
       \/ rs_given = TRUE /\ rs_spacing \in ResampleSpacings
    /\ rs_min \in {MinPathPoints, MaxMinPoints, ResampleMinPoints}
    /\ rs_lens = << >>
    /\ rs_target = 0
    /\ rs_step = 0
    /\ rs_segment = 0
    /\ rs_progress = 0
    /\ rs_resampled = << >>
    /\ rs_pc = "call"
    /\ IdleBut("resample")

ResampleFrame ==
    /\ UNCHANGED <<rs_path, rs_given, rs_spacing, rs_min>>
    /\ FrameBut("resample")

\* lines 1214-1245: the early return, the segment lengths, target_points and the
\* spacing
ResampleEnter ==
    /\ rs_pc = "call"
    /\ IF Len(rs_path) < 3
       THEN /\ rs_resampled' = rs_path
            /\ rs_pc' = "returned"
            /\ UNCHANGED <<rs_lens, rs_target, rs_step>>
       ELSE IF ResampleRaises(rs_path, rs_given, rs_spacing)
            THEN /\ rs_pc' = "ZeroDivisionError"
                 /\ rs_lens' = SegmentLengths(rs_path)
                 /\ UNCHANGED <<rs_resampled, rs_target, rs_step>>
            ELSE /\ rs_lens' = SegmentLengths(rs_path)
                 /\ rs_target' = TargetPoints(rs_path, rs_given, rs_spacing, rs_min)
                 /\ rs_step' = TotalLength(rs_path) \div rs_target'
                 /\ rs_resampled' = << >>
                 /\ rs_pc' = "loop"
    /\ UNCHANGED <<rs_segment, rs_progress>>
    /\ ResampleFrame

\* one iteration of `for _ in range(target_points)`
ResampleEmit ==
    /\ rs_pc = "loop"
    /\ Len(rs_resampled) < rs_target
    /\ LET st == ResampleStep(rs_path, rs_lens, rs_step, <<rs_segment, rs_progress, rs_resampled>>)
       IN  /\ rs_segment' = st[1]
           /\ rs_progress' = st[2]
           /\ rs_resampled' = st[3]
    /\ UNCHANGED <<rs_lens, rs_target, rs_step, rs_pc>>
    /\ ResampleFrame

\* return resampled
ResampleReturn ==
    /\ rs_pc = "loop"
    /\ Len(rs_resampled) >= rs_target
    /\ rs_pc' = "returned"
    /\ UNCHANGED <<rs_lens, rs_target, rs_step, rs_segment, rs_progress, rs_resampled>>
    /\ ResampleFrame

ResampleNext ==
    \/ ResampleEnter
    \/ ResampleEmit
    \/ ResampleReturn

----------------------------------------------------------------------------
(* the conditioning stages and the three frame helpers in a row, as the entry
   points and the mesh builders call them *)

\* four samples on a line: the closed loop runs back over itself
CollinearPath == << Pt(0, 0), Pt(2000, 0), Pt(5000, 0), Pt(9000, 0) >>

\* three samples at one place
PointTriple == << Pt(-3000, 4000), Pt(-3000, 4000), Pt(-3000, 4000) >>

\* a 178-degree hairpin with 5-unit legs at sample 1 of a six-sample loop
HairpinSpike ==
    << Pt(0, 0), Pt(5000, 0), Pt(0, 200), Pt(0, 10000), Pt(-10000, 10000), Pt(-10000, 0) >>

\* a 175-degree hairpin with 5-unit legs at sample 1 of a five-sample loop
HairpinWedge ==
    << Pt(4830, -1294), Pt(0, 0), Pt(4698, -1710), Pt(-8000, -9000), Pt(-10000, -2000) >>

\* a 179-degree hairpin with 5-unit legs at sample 1 of a three-sample loop
HairpinTriangle == << Pt(4995, 50), Pt(0, 0), Pt(4995, -50) >>

StagesPaths ==
    { SquarePath, ClimbingTriangle, DuplicateCornerPath, DuplicateStartPath, CollinearPath,
      PointPath, PointTriple, HairpinSpike, HairpinWedge, HairpinTriangle }

StagesWidths == { 6000, 900, 0 }

StagesInit ==
    /\ sg_path \in StagesPaths
    /\ sg_width \in StagesWidths
    /\ sg_resample \in BOOLEAN
    /\ sg_out = << >>
    /\ sg_tangents = << >>
    /\ sg_radii = << >>
    /\ sg_turns = << >>
    /\ sg_pc = "call"
    /\ IdleBut("stages")

StagesFrame ==
    /\ UNCHANGED <<sg_path, sg_width, sg_resample>>
    /\ FrameBut("stages")

\* path = _resample_path_uniform(path, target_spacing=track_width / 3, min_points=100)
StagesResample ==
    /\ sg_pc = "call"
    /\ IF ~sg_resample
       THEN sg_out' = sg_path /\ sg_pc' = "resampled"
       ELSE IF ResampleRaises(sg_path, TRUE, sg_width \div SpacingDivisor)
            THEN sg_out' = sg_out /\ sg_pc' = "ZeroDivisionError"
            ELSE /\ sg_out' = ResamplePathUniform(sg_path, TRUE, sg_width \div SpacingDivisor,
                                                  ResampleMinPoints)
                 /\ sg_pc' = "resampled"
    /\ UNCHANGED <<sg_tangents, sg_radii, sg_turns>>
    /\ StagesFrame

\* path = _limit_path_curvature(path, track_width)
StagesLimit ==
    /\ sg_pc = "resampled"
    /\ IF LimitRaises(sg_out, sg_width, DefaultMaxIterations)
       THEN sg_out' = sg_out /\ sg_pc' = "ZeroDivisionError"
       ELSE /\ sg_out' = LimitPathCurvature(sg_out, sg_width, DefaultMaxIterations)
            /\ sg_pc' = "limited"
    /\ UNCHANGED <<sg_tangents, sg_radii, sg_turns>>
    /\ StagesFrame

\* tangents = _compute_smooth_tangents(path_points, smoothing_window)
StagesTangents ==
    /\ sg_pc = "limited"
    /\ IF TangentsRaise(sg_out, SmoothingWindow(Len(sg_out)))
       THEN sg_tangents' = sg_tangents /\ sg_pc' = "ZeroDivisionError"
       ELSE /\ sg_tangents' = ComputeSmoothTangents(sg_out, SmoothingWindow(Len(sg_out)))
            /\ sg_pc' = "tangents"
    /\ UNCHANGED <<sg_out, sg_radii, sg_turns>>
    /\ StagesFrame

\* curvature_radii = _compute_curvature_radii(path_points)
StagesRadii ==
    /\ sg_pc = "tangents"
    /\ IF RadiiRaise(sg_out)
       THEN sg_radii' = sg_radii /\ sg_pc' = "ZeroDivisionError"
       ELSE /\ sg_radii' = ComputeCurvatureRadii(sg_out, RadiiWindow)
            /\ sg_pc' = "radii"
    /\ UNCHANGED <<sg_out, sg_tangents, sg_turns>>
    /\ StagesFrame

\* turn_directions = _compute_turn_directions(path_points, tangents)
StagesTurns ==
    /\ sg_pc = "radii"
    /\ IF TurnDirectionsRaise(sg_out)
       THEN sg_turns' = sg_turns /\ sg_pc' = "ZeroDivisionError"
       ELSE /\ sg_turns' = ComputeTurnDirections(sg_out)
            /\ sg_pc' = "turns"
    /\ UNCHANGED <<sg_out, sg_tangents, sg_radii>>
    /\ StagesFrame

StagesNext ==
    \/ StagesResample
    \/ StagesLimit
    \/ StagesTangents
    \/ StagesRadii
    \/ StagesTurns

----------------------------------------------------------------------------
(* _compute_curvature_radius at one sample, and _get_adaptive_offsets with the
   radius it returned *)

\* a triangle of area 0.00005, below the 0.0001 of the degeneracy test
SliverTriangle == << Pt(0, 0), Pt(10, 0), Pt(0, 10) >>

RadiusPaths ==
    { << >>, << Pt(0, 0) >>, << Pt(0, 0), Pt(4000, 0) >>, CollinearPath, PointTriple,
      DuplicateCornerPath, SquarePath, SliverTriangle, OctagonPath, HairpinTriangle }

RadiusInit ==
    /\ cr_path \in RadiusPaths
    /\ cr_index \in 0..Max(Len(cr_path) - 1, 0)
    /\ cr_half \in OffsetHalfWidths
    /\ cr_turn \in OffsetTurns
    /\ cr_radius = 0
    /\ cr_result = << >>
    /\ cr_pc = "call"
    /\ IdleBut("radius")

\* r = _compute_curvature_radius(path_points, i)
RadiusCompute ==
    /\ cr_pc = "call"
    /\ cr_radius' = ComputeCurvatureRadius(cr_path, cr_index)
    /\ cr_pc' = "radius"
    /\ UNCHANGED <<cr_path, cr_index, cr_half, cr_turn, cr_result>>
    /\ FrameBut("radius")

\* left_offset, right_offset = _get_adaptive_offsets(r, half_width, turn_direction)
RadiusOffsets ==
    /\ cr_pc = "radius"
    /\ cr_result' = GetAdaptiveOffsets(cr_radius, cr_half, cr_turn)
    /\ cr_pc' = "done"
    /\ UNCHANGED <<cr_path, cr_index, cr_half, cr_turn, cr_radius>>
    /\ FrameBut("radius")

RadiusNext == RadiusCompute \/ RadiusOffsets

----------------------------------------------------------------------------
(* _compute_smooth_tangents, one step per pass *)

\* out along the y axis and back over the same samples: at both ends the window
\* differences p[i + offset] - p[i - offset] are all zero
OutAndBackPath ==
    << Pt(0, 0), Pt(0, 2000), Pt(0, 4000), Pt(0, 6000), Pt(0, 4000), Pt(0, 2000) >>

TangentPaths ==
    Quadrilaterals \cup { << Pt(0, 0), Pt(4000, 0) >>, HairpinTriangle, PointPath,
                          CollinearPath, OctagonPath, OutAndBackPath, HairpinPath }

\* smoothing_window: the default 3 = max(3, n // 20) of short paths, and below
TangentWindows == 1..MinWindow

TangentsInit ==
    /\ tg_path \in TangentPaths
    /\ tg_window \in TangentWindows
    /\ tg_raw = << >>
    /\ tg_result = << >>
    /\ tg_pc = "call"
    /\ IdleBut("tangents")

\* the first pass: raw_tangents
TangentsRaw ==
    /\ tg_pc = "call"
    /\ IF TangentsRaise(tg_path, tg_window)
       THEN tg_raw' = tg_raw /\ tg_pc' = "ZeroDivisionError"
       ELSE /\ tg_raw' = List([k \in 1..Len(tg_path) |->
                                  RawTangent(tg_path, k - 1, tg_window)])
            /\ tg_pc' = "raw"
    /\ UNCHANGED <<tg_path, tg_window, tg_result>>
    /\ FrameBut("tangents")

\* the second pass: the angles of raw_tangents averaged; return smoothed_tangents
TangentsSmooth ==
    /\ tg_pc = "raw"
    /\ tg_result' = ComputeSmoothTangents(tg_path, tg_window)
    /\ tg_pc' = "done"
    /\ UNCHANGED <<tg_path, tg_window, tg_raw>>
    /\ FrameBut("tangents")

TangentsNext == TangentsRaw \/ TangentsSmooth

----------------------------------------------------------------------------
(* the caller runs the entry point a second time with the same arguments *)

TwoRunsPaths == { << Pt(0, 0), Pt(4000, 0) >>, HairpinPath, DuplicateCornerPath }

TwoRunsWaypoints == { << <<0, 0>>, <<6000, 0>>, <<3000, 5000>> >> }

TwoRunsFigure8s == { <<5000, 4000, 12>> }

TwoRunsInit ==
    /\ \/ /\ pl_fn = "create_track_from_path"
          /\ pl_input \in TwoRunsPaths
          /\ pl_resample \in BOOLEAN
       \/ /\ pl_fn = "create_custom_track"
          /\ pl_input \in TwoRunsWaypoints
          /\ pl_resample = TRUE
       \/ /\ pl_fn = "create_figure8_track"
          /\ pl_input \in TwoRunsFigure8s
          /\ pl_resample = TRUE
    /\ pl_width = 6000
    /\ pl_thickness = 300
    /\ pl_barriers \in BOOLEAN
    /\ pl_location = <<1000, -2000, 500>>
    /\ PipelineCall
    /\ IdleBut("pipeline")

\* the first call has returned or raised; the caller keeps what it produced and
\* calls again with the same argument objects.  The host scene is not reset.
PipelineRerun ==
    /\ pl_run = 1
    /\ pl_pc \in {"returned", "ValueError", "ZeroDivisionError"}
    /\ pl_first' = [pc |-> pl_pc, log |-> pl_log, objects |-> pl_objects]
    /\ pl_run' = 2
    /\ pl_pc' = "call"
    /\ pl_path' = << >>
    /\ pl_objects' = << >>
    /\ pl_log' = << >>
    /\ pl_alias' = FALSE
    /\ UNCHANGED <<pl_fn, pl_input, pl_width, pl_thickness, pl_barriers, pl_resample,
                   pl_location, pl_scene>>
    /\ FrameBut("pipeline")

TwoRunsNext == PipelineNext \/ PipelineRerun

----------------------------------------------------------------------------
(* The specifications: one per function under study *)

SpecLimit == LimitInit /\ [][LimitNext]_vars

SpecOffsets == OffsetsInit /\ [][OffsetsNext]_vars

SpecGenerate == GenerateInit /\ [][GenerateNext]_vars

SpecMesh == MeshInit /\ [][MeshNext]_vars

SpecResample == ResampleInit /\ [][ResampleNext]_vars

SpecStages == StagesInit /\ [][StagesNext]_vars

SpecRadius == RadiusInit /\ [][RadiusNext]_vars

SpecTangents == TangentsInit /\ [][TangentsNext]_vars

SpecPipeline == PipelineInit /\ [][PipelineNext]_vars

SpecTwoRuns == TwoRunsInit /\ [][TwoRunsNext]_vars

----------------------------------------------------------------------------
(* Claims *)

\* the worst excess (turn angle minus safe angle) over the samples of a path
RECURSIVE WorstExcessFrom(_, _, _)
WorstExcessFrom(points, track_width, i) ==
    IF i >= Len(points)
    THEN 0
    ELSE LET ta == GetTurnAngle(points, i)
         IN  Max(ta[1] - GetSafeAngle(ta[2], track_width),
                 WorstExcessFrom(points, track_width, i + 1))

WorstExcess(points, track_width) == WorstExcessFrom(points, track_width, 0)

\* C1: when _limit_path_curvature (path of at least 4 samples, track_width > 0)
\* leaves its loop early, every sample's turn angle, recomputed from the returned
\* positions, is at most its safe angle plus the 0.01 rad tolerance.
C1_EarlyExitWithinSafeAngle ==
    (lp_pc = "done" /\ lp_broke /\ lp_iter < lp_maxit /\ Len(lp_path) >= 4 /\ lp_width > 0)
        => WorstExcess(lp_result, lp_width) <= Tolerance

\* C2: _limit_path_curvature runs at most max_iterations sweeps and then returns
\* a path with as many samples as its input, converged or not; it has no raising
\* exit.
C2_SweepsCappedSameLength ==
    /\ lp_iter <= lp_maxit
    /\ lp_pc \in {"idle", "call", "loop", "done"}
    /\ lp_pc = "done" => Len(lp_result) = Len(lp_path)

\* C2 witness: the cap is reached without convergence and the path is returned
C2_CapReachedUnconverged ==
    /\ lp_pc = "done"
    /\ ~lp_broke
    /\ lp_maxit >= 2
    /\ lp_iter = lp_maxit
    /\ Len(lp_result) >= 4
    /\ WorstExcess(lp_result, lp_width) > Tolerance

\* C3: for every half_width > 0, radius and turn direction _get_adaptive_offsets
\* returns 0 < left_offset <= half_width and 0 < right_offset <= half_width.
C3_OffsetsWithinHalfWidth ==
    (of_pc = "done" /\ of_half > 0)
        => /\ 0 < of_result[1] /\ of_result[1] <= of_half
           /\ 0 < of_result[2] /\ of_result[2] <= of_half

\* the clamped inner offset of the offset rule, times 100 (exact in integers)
InnerOffsetTimes100(radius, half_width) ==
    Max(10000, Min(100 * half_width, 85 * radius - 10000))

\* C4: radius > 3 * half_width gives (half_width, half_width); otherwise a left
\* turn gives left = max(0.1, min(half_width, 0.85 * radius - 0.1)) and right =
\* half_width, a right turn the mirror image; the outside is never changed.
C4_OffsetRule ==
    of_pc = "done" =>
        IF of_radius > 3 * of_half
        THEN of_result = <<of_half, of_half>>
        ELSE /\ of_turn > TurnThreshold =>
                  /\ 100 * of_result[1] = InnerOffsetTimes100(of_radius, of_half)
                  /\ of_result[2] = of_half
             /\ of_turn < -TurnThreshold =>
                  /\ 100 * of_result[2] = InnerOffsetTimes100(of_radius, of_half)
                  /\ of_result[1] = of_half

\* C4 witness: a left turn tighter than 3 * half_width shrinks the left side only
C4_LeftTurnShrunk ==
    /\ of_pc = "done"
    /\ of_radius <= 3 * of_half
    /\ of_turn > TurnThreshold
    /\ InnerFloor < of_result[1]
    /\ of_result[1] < of_half
    /\ of_result[2] = of_half

\* the vertices a face names, and the faces that name vertex v
FaceSet(f) == { f[k] : k \in 1..4 }
FacesAt(faces, v) == { k \in 1..Len(faces) : v \in FaceSet(faces[k]) }

\* the corners (0 left_top, 1 right_top, 2 right_bottom, 3 left_bottom) on each
\* side of the slab
SideCorners == { {0, 1}, {2, 3}, {0, 3}, {1, 2} }

\* the vertex numbers of corners `side` of sections i and (i + 1) mod n
SpanSide(i, n, side) == { 4 * s + c + 1 : s \in {i, (i + 1) % n}, c \in side }

\* C5: for n >= 3 samples the roadway has exactly 4n vertices and 4n quads, one
\* top, bottom, left and right quad for each span (i, (i+1) mod n) including the
\* wrap span, and every vertex is named by exactly 4 faces.
C5_FourNQuads ==
    (mb_pc = "done" /\ Len(mb_path) >= 3) =>
        LET n == Len(mb_path)
        IN  /\ Len(mb_verts) = 4 * n
            /\ Len(mb_faces) = 4 * n
            /\ \A i \in 0..(n - 1) : \A side \in SideCorners :
                   Cardinality({ k \in 1..Len(mb_faces) :
                                   FaceSet(mb_faces[k]) = SpanSide(i, n, side) }) = 1
            /\ \A v \in 1..(4 * n) : Cardinality(FacesAt(mb_faces, v)) = 4

\* C5 witness: a finished roadway of 6 samples, the wrap span's top quad in it
C5_SixSampleRoadway ==
    /\ mb_pc = "done"
    /\ Len(mb_path) = 6
    /\ \E k \in 1..Len(mb_faces) : FaceSet(mb_faces[k]) = {21, 22, 1, 2}

\* the undirected edges of a quad, and of a mesh
FaceEdges(f) == { {f[k], f[(k % 4) + 1]} : k \in 1..4 }
MeshEdges(faces) == UNION { FaceEdges(faces[k]) : k \in 1..Len(faces) }

\* C6: the roadway quad-strip is watertight: every edge of a face belongs to
\* exactly two faces.
C6_Watertight ==
    (mb_pc = "done" /\ Len(mb_path) >= 3) =>
        \A e \in MeshEdges(mb_faces) :
            Cardinality({ k \in 1..Len(mb_faces) : e \in FaceEdges(mb_faces[k]) }) = 2

\* C6 witness: a finished roadway of 3 samples (the shortest loop) with its 24
\* edges
C6_TriangleRoadway ==
    /\ mb_pc = "done"
    /\ Len(mb_path) = 3
    /\ Cardinality(MeshEdges(mb_faces)) = 24

\* the four vertex positions of cross-section i (0-based) of a mesh
SectionAt(verts, i) == <<verts[4 * i + 1], verts[4 * i + 2], verts[4 * i + 3], verts[4 * i + 4]>>

\* a mesh without degenerate quads
NoDegenerateQuad(obj) ==
    LET n == Len(obj.verts) \div 4
    IN  /\ \A k \in 1..Len(obj.faces) : Cardinality(FaceSet(obj.faces[k])) = 4
        /\ Cardinality({ FaceSet(obj.faces[k]) : k \in 1..Len(obj.faces) }) = Len(obj.faces)
        /\ \A i \in 0..(n - 1) : SectionAt(obj.verts, i) # SectionAt(obj.verts, (i + 1) % n)

\* C7: for every conditioned path the pipeline hands to the mesh builders, no
\* emitted quad is degenerate: each face names four distinct vertices, no two
\* faces name the same vertex set, and the two cross-sections a quad joins are
\* not at the same position, also when the input path has duplicate adjacent
\* points.
C7_NoDegenerateQuads ==
    (pl_width > 0 /\ pl_thickness > 0) =>
        \A o \in 1..Len(pl_objects) : NoDegenerateQuad(pl_objects[o])

\* C8: create_track_from_path and create_custom_track called with a
\* non-positive track_width or track_thickness raise a descriptive error before
\* any resampling, curvature limiting or mesh creation: the resampler is not
\* run, no later stage is reached, nothing is linked into the scene and no
\* ZeroDivisionError comes out of a stage.
C8_NonPositiveRejected ==
    (pl_width <= 0 \/ pl_thickness <= 0) =>
        /\ pl_pc \notin {"limited", "translated", "surface", "outer", "inner", "returned",
                          "ZeroDivisionError"}
        /\ pl_pc = "resampled" => ~pl_resample
        /\ pl_objects = << >>

\* C9: generate_custom_path raises ValueError, with no sample produced, exactly
\* when it is given fewer than 3 control points, whatever the other arguments.
C9_RejectsFewerThanThree ==
    gc_pc \in {"done", "ValueError"} =>
        /\ (gc_pc = "ValueError") <=> (Len(gc_waypoints) < 3)
        /\ gc_pc = "ValueError" => gc_result = << >>

\* C9 witness: two control points are rejected
C9_TwoPointsRejected ==
    /\ gc_pc = "ValueError"
    /\ Len(gc_waypoints) = 2
    /\ gc_segments > 0

\* C10: a stage that returns normally returns at least 3 samples:
\* generate_custom_path for any control points and segments_per_section it
\* does not reject, _limit_path_curvature for any path of 3 or more samples.
C10_AtLeastThreeSamples ==
    /\ gc_pc = "done" => Len(gc_result) >= 3
    /\ (lp_pc = "done" /\ Len(lp_path) >= 3) => Len(lp_result) >= 3

\* s is an initial part of t
IsPrefix(s, t) == Len(s) <= Len(t) /\ \A k \in 1..Len(s) : s[k] = t[k]

StageRank(stage) ==
    CASE stage = "generate"  -> 1
      [] stage = "resample"  -> 2
      [] stage = "limit"     -> 3
      [] stage = "translate" -> 4
      [] stage = "surface"   -> 5
      [] stage = "outer"     -> 6
      [] stage = "inner"     -> 7

\* C12: in each entry point the stages run in the order resample (when enabled),
\* curvature limiting, translation by location, mesh emission: the limiter runs
\* after the resampler, the only stage after it moves every sample by `location`
\* and so keeps the shape, and the roadway and both barriers are built from the
\* translated output of the limiter.
C12_StagesInFixedOrder ==
    /\ \A i, j \in 1..Len(pl_log) :
           i < j => StageRank(pl_log[i].stage) < StageRank(pl_log[j].stage)
    /\ \A i \in 1..Len(pl_log) :
           /\ pl_log[i].stage = "resample" => pl_resample
           /\ pl_log[i].stage = "limit" /\ pl_resample =>
                  \E j \in 1..(i - 1) : pl_log[j].stage = "resample"
           /\ pl_log[i].stage = "translate" =>
                  \E j \in 1..(i - 1) :
                      /\ pl_log[j].stage = "limit"
                      /\ Len(pl_log[j].path) = Len(pl_log[i].path)
                      /\ \A k \in 1..Len(pl_log[i].path) : \A c \in 1..3 :
                             pl_log[i].path[k][c] - pl_log[j].path[k][c] = pl_location[c]
           /\ pl_log[i].stage \in {"surface", "outer", "inner"} =>
                  \E j \in 1..(i - 1) :
                      /\ pl_log[j].stage = "translate"
                      /\ pl_log[j].path = pl_log[i].path

\* C12 witness: create_figure8_track has returned the roadway and both barriers
\* away from the origin after all seven stages
C12_Figure8AllStages ==
    /\ pl_fn = "create_figure8_track"
    /\ pl_pc = "returned"
    /\ pl_location # <<0, 0, 0>>
    /\ [k \in 1..Len(pl_log) |-> pl_log[k].stage]
           = <<"generate", "resample", "limit", "translate", "surface", "outer", "inner">>

\* the number of samples emitted before section i of generate_custom_path
RECURSIVE SectionStart(_, _, _, _)
SectionStart(waypoints, segments_per_section, adaptive_subdivision, i) ==
    IF i <= 0
    THEN 0
    ELSE SectionStart(waypoints, segments_per_section, adaptive_subdivision, i - 1)
         + ActualSegments(waypoints, i - 1, segments_per_section, adaptive_subdivision)

\* C13: for n >= 3 control points and segments_per_section >= 1, sample j of
\* section i is the spline of the control points (i-1, i, i+1, i+2) modulo n at
\* t = j / actual_segments < 1; the first sample of section i is control point i
\* with its elevation, and the output holds the sections' samples and nothing more
\* (no sample at t = 1, so the first point is not emitted again at the end).
C13_SectionsStartAtControlPoints ==
    gc_pc = "done" /\ gc_segments >= 1 =>
        LET n         == Len(gc_waypoints)
            w(i)      == gc_waypoints[(i % n) + 1]
            h(i)      == IF gc_heights = << >> THEN 0 ELSE gc_heights[(i % n) + 1]
            start(i)  == SectionStart(gc_waypoints, gc_segments, gc_adaptive, i)
            count(i)  == start(i + 1) - start(i)
        IN  /\ n >= 3
            /\ Len(gc_result) = start(n)
            /\ \A i \in 0..(n - 1) :
                   /\ count(i) >= 1
                   /\ gc_result[start(i) + 1] = <<w(i)[1], w(i)[2], h(i)>>
                   /\ \A j \in 0..(count(i) - 1) :
                          LET t == (j * AngleScale) \div count(i)
                          IN  /\ t < AngleScale
                              /\ gc_result[start(i) + j + 1]
                                     = << CatmullRom(w(i - 1)[1], w(i)[1], w(i + 1)[1], w(i + 2)[1], t),
                                          CatmullRom(w(i - 1)[2], w(i)[2], w(i + 1)[2], w(i + 2)[2], t),
                                          CatmullRom(h(i - 1), h(i), h(i + 1), h(i + 2), t) >>

\* C13 witness: five control points with an elevation profile, three samples per
\* section, and at least one section subdivided further
C13_FiveSectionsWithHeights ==
    /\ gc_pc = "done"
    /\ Len(gc_waypoints) = 5
    /\ gc_heights # << >>
    /\ gc_segments = 3
    /\ gc_adaptive
    /\ Len(gc_result) > 15

ArcTolerance == 2       \* 0.002: the rounding of two interpolations

\* the point of the closed polyline at arc length s from the start of segment seg
RECURSIVE ArcPoint(_, _, _, _)
ArcPoint(path, lens, seg, s) ==
    IF s >= lens[seg + 1] /\ seg + 1 < Len(lens)
    THEN ArcPoint(path, lens, seg + 1, s - lens[seg + 1])
    ELSE LET p == At(path, seg)
             q == At(path, seg + 1)
             on(c) == IF lens[seg + 1] = 0 THEN p[c]
                      ELSE p[c] + ((q[c] - p[c]) * s) \div lens[seg + 1]
         IN  <<on(1), on(2), on(3)>>

\* C14: for a closed path of n >= 3 samples and total length L > 0, sample k of
\* the T samples of _resample_path_uniform lies on the input polyline at arc
\* length k * L / T from the first input sample, also when the input has
\* zero-length segments.
C14_SamplesAtEqualArcLength ==
    rs_pc \in {"loop", "returned"} /\ Len(rs_path) >= 3 /\ TotalLength(rs_path) > 0 =>
        \A k \in 1..Len(rs_resampled) : \A c \in 1..3 :
            Abs(rs_resampled[k][c] - ArcPoint(rs_path, rs_lens, 0, (k - 1) * rs_step)[c])
                <= ArcTolerance

C16_StagesReturnNormally ==
    Len(sg_path) >= 3 /\ sg_width > 0 =>
        /\ sg_pc \in {"call", "resampled", "limited", "tangents", "radii", "turns"}
        /\ sg_pc = "turns" =>
               /\ IF sg_resample
                  THEN Len(sg_out) >= ResampleMinPoints
                  ELSE Len(sg_out) = Len(sg_path)
               /\ Len(sg_tangents) = Len(sg_out)
               /\ Len(sg_radii) = Len(sg_out)
               /\ Len(sg_turns) = Len(sg_out)

\* C16 witness: all five stages have returned for a path whose samples are all
\* at one place, with the fallback direction (1, 0), to the model's resolution,
\* and an infinite radius
C16_IdenticalPointsThroughAllStages ==
    /\ sg_path = PointPath
    /\ sg_width > 0
    /\ sg_resample
    /\ sg_pc = "turns"
    /\ sg_tangents[1][1] >= AngleScale - 1
    /\ Abs(sg_tangents[1][2]) <= 1
    /\ sg_radii[1] = Infinity

\* a turn of 170 degrees or more is a near-180 degree hairpin
NearReversal == (17 * PiA) \div 18

\* sample i of the path is a hairpin whose two segments are 5 units long
IsHairpin(path, i) ==
    /\ GetTurnAngle(path, i)[1] >= NearReversal
    /\ Abs(Dist2(At(path, i - 1), At(path, i)) - 5 * Scale) <= 5
    /\ Abs(Dist2(At(path, i), At(path, i + 1)) - 5 * Scale) <= 5

\* C17: for a path with a near-180 degree hairpin whose segments are 5 units
\* long and track_width = 6, _limit_path_curvature with max_iterations = 50
\* returns a path whose turn angle at that corner is below 2*arcsin(0.8*5/6).
C17_HairpinBelowSafeAngle ==
    sg_pc = "limited" /\ ~sg_resample /\ sg_width = 6 * Scale =>
        \A i \in 0..(Len(sg_path) - 1) :
            IsHairpin(sg_path, i) =>
                GetTurnAngle(sg_out, i)[1] < GetSafeAngle(5 * Scale, 6 * Scale)

\* the names of the objects of a list, in order
ObjectNames(objects) == [k \in 1..Len(objects) |-> objects[k].name]

\* C18: create_track_from_path returns one object, the roadway surface, when
\* include_barriers is false and three, in the order surface, outer barrier,
\* inner barrier, when it is true; the roadway is created first and is always
\* in the list.
C18_SurfaceThenBarriers ==
    pl_fn = "create_track_from_path" =>
        /\ pl_objects # << >> => pl_objects[1].name = "Surface"
        /\ pl_pc = "returned" =>
               ObjectNames(pl_objects) = IF pl_barriers
                                         THEN <<"Surface", "Outer_Barrier", "Inner_Barrier">>
                                         ELSE <<"Surface">>

\* C18 witness: create_track_from_path has returned three objects for the
\* octagon, the two barriers on different sides
C18_ThreeObjectsReturned ==
    /\ pl_fn = "create_track_from_path"
    /\ pl_input = OctagonPath
    /\ pl_barriers
    /\ pl_pc = "returned"
    /\ Len(pl_objects) = 3
    /\ pl_objects[2].verts # pl_objects[3].verts

\* the four control points of section i lie on one line
SectionCollinear(waypoints, i) ==
    /\ Cross(At(waypoints, i - 1), At(waypoints, i), At(waypoints, i + 1)) = 0
    /\ Cross(At(waypoints, i), At(waypoints, i + 1), At(waypoints, i + 2)) = 0

\* C19: with segments_per_section = s >= 1, an adaptive section gets at least s
\* and at most 3 * s samples, and exactly s when its four control points are
\* collinear; without adaptive subdivision every section gets s samples and the
\* output has n * s.
C19_SectionCounts ==
    gc_pc = "done" /\ gc_segments >= 1 =>
        LET n        == Len(gc_waypoints)
            start(i) == SectionStart(gc_waypoints, gc_segments, gc_adaptive, i)
            count(i) == start(i + 1) - start(i)
        IN  /\ Len(gc_result) = start(n)
            /\ \A i \in 0..(n - 1) :
                   /\ gc_segments <= count(i)
                   /\ count(i) <= 3 * gc_segments
                   /\ SectionCollinear(gc_waypoints, i) => count(i) = gc_segments
                   /\ ~gc_adaptive => count(i) = gc_segments
            /\ ~gc_adaptive => Len(gc_result) = n * gc_segments

\* C19 witness: an adaptive run with s = 2 in which a collinear section got 2
\* samples and a right-angle section got 6
C19_CollinearAndSharpSections ==
    /\ gc_pc = "done"
    /\ gc_adaptive
    /\ gc_segments = 2
    /\ \E i, j \in 0..(Len(gc_waypoints) - 1) :
           LET start(k) == SectionStart(gc_waypoints, gc_segments, gc_adaptive, k)
           IN  /\ SectionCollinear(gc_waypoints, i)
               /\ start(i + 1) - start(i) = 2
               /\ start(j + 1) - start(j) = 6
    /\ Len(gc_result) > 2 * Len(gc_waypoints)

\* the turn angle (0..pi) between two chords, each at least 0.001 long
ChordTurn(dx1, dy1, dx2, dy2) ==
    LET len1 == Sqrt(dx1 * dx1 + dy1 * dy1)
        len2 == Sqrt(dx2 * dx2 + dy2 * dy2)
        dot  == ((dx1 * AngleScale) \div len1) * ((dx2 * AngleScale) \div len2)
                + ((dy1 * AngleScale) \div len1) * ((dy2 * AngleScale) \div len2)
    IN  Acos(Max(-UnitSq, Min(UnitSq, dot)))

\* the three chords of section i are all at least 0.001 long
SectionRegular(waypoints, i) ==
    \A k \in 0..2 : Dist2(At(waypoints, i - 1 + k), At(waypoints, i + k)) >= MinSegment

\* the larger of the two chord turn angles of section i
SectionTurn(waypoints, i) ==
    LET p0 == At(waypoints, i - 1)
        p1 == At(waypoints, i)
        p2 == At(waypoints, i + 1)
        p3 == At(waypoints, i + 2)
    IN  Max(ChordTurn(p1[1] - p0[1], p1[2] - p0[2], p2[1] - p1[1], p2[2] - p1[2]),
            ChordTurn(p2[1] - p1[1], p2[2] - p1[2], p3[1] - p2[1], p3[2] - p2[2]))

\* C20: with adaptive subdivision, of two sections with the same
\* segments_per_section the one whose larger chord turn angle is greater (by
\* more than 0.01 rad, the resolution of the comparison) never gets fewer samples.
C20_SharperNeverFewer ==
    gc_pc = "done" /\ gc_adaptive /\ gc_segments >= 1 =>
        LET n        == Len(gc_waypoints)
            start(i) == SectionStart(gc_waypoints, gc_segments, gc_adaptive, i)
            count(i) == start(i + 1) - start(i)
        IN  \A i, j \in 0..(n - 1) :
                /\ SectionRegular(gc_waypoints, i)
                /\ SectionRegular(gc_waypoints, j)
                /\ SectionTurn(gc_waypoints, i) > SectionTurn(gc_waypoints, j) + AngleScale \div 100
                => count(i) >= count(j)

\* C21: the safe angle get_safe_angle computes for a sample of the path being
\* swept (track_width > 0) is 0.4*pi when segment_length >= track_width and
\* 2*asin(0.8 * segment_length / track_width) otherwise, and it never exceeds
\* 0.4*pi.
C21_SafeAngleCeiling ==
    (lp_pc = "loop" /\ lp_width > 0) =>
        \A i \in 0..(Len(lp_points) - 1) :
            LET segment_length == GetTurnAngle(lp_points, i)[2]
                safe == GetSafeAngle(segment_length, lp_width)
            IN  /\ safe <= SafeCeiling
                /\ safe = IF segment_length >= lp_width
                          THEN SafeCeiling
                          ELSE 2 * Asin((segment_length * SafeMargin) \div lp_width)

\* the points as sample i finds them in a sweep from `old` to `new`: the samples
\* before i have been visited, the others have not
SeenAt(old, new, i) == [k \in 1..Len(old) |-> IF k <= i THEN new[k] ELSE old[k]]

\* sample i was displaced toward the midpoint of its circular neighbours by the
\* fraction min(0.3, excess/pi) of the vector to it, in x, y and z (to one unit
\* of the last place)
DisplacedTowardMidpoint(seen, new, i, excess) ==
    LET smooth_factor == Min(MaxSmooth, (excess * AngleScale) \div PiA)
        prev == At(seen, i - 1)
        next == At(seen, i + 1)
    IN  \A k \in 1..3 :
            Abs((new[i + 1][k] - seen[i + 1][k]) * AngleScale
                - (((prev[k] + next[k]) \div 2) - seen[i + 1][k]) * smooth_factor)
                <= AngleScale

\* C22: in each sweep of _limit_path_curvature a sample is moved only if its turn
\* angle (as the sweep finds it) exceeds its safe angle; a moved sample is
\* displaced toward the midpoint of its two circular neighbours by the fraction
\* min(0.3, excess/pi) of that vector in x, y and z alike; any other sample keeps
\* its position in that sweep.
C22_SweepMovesOnlyOverLimit ==
    [][lp_iter' # lp_iter =>
        \A i \in 0..(Len(lp_points) - 1) :
            LET seen   == SeenAt(lp_points, lp_points', i)
                ta     == GetTurnAngle(seen, i)
                safe   == GetSafeAngle(ta[2], lp_width)
            IN  IF ta[1] > safe
                THEN DisplacedTowardMidpoint(seen, lp_points', i, ta[1] - safe)
                ELSE lp_points'[i + 1] = lp_points[i + 1]]_vars

\* C22 witness: after one sweep over the sloped hairpin a sample has been moved
\* in x, y and z and another sample is where it was
C22_MovedAndKeptInOneSweep ==
    /\ lp_pc = "loop"
    /\ lp_iter = 1
    /\ \E i \in 1..Len(lp_points) :
           \A k \in 1..3 : lp_points[i][k] # lp_path[i][k]
    /\ \E j \in 1..Len(lp_points) : lp_points[j] = lp_path[j]

\* the samples at circular distance at most window from sample i (0-based)
RadiiNeighbours(n, i, window) == { (i + d + 2 * n) % n : d \in (0 - window)..window }

\* C23: for every sample i the radius _compute_curvature_radii returns is the
\* minimum of the raw circumradii of the samples at circular distance at most
\* smoothing_window (2) from i: it is the raw radius of one of them and no larger
\* than the raw radius of any of them, with indices wrapping around the loop.
C23_RadiusIsWindowMinimum ==
    (sg_pc \in {"radii", "turns"} /\ Len(sg_out) >= 3) =>
        /\ Len(sg_radii) = Len(sg_out)
        /\ \A i \in 0..(Len(sg_out) - 1) :
               LET near == RadiiNeighbours(Len(sg_out), i, RadiiWindow)
               IN  /\ \A j \in near : sg_radii[i + 1] <= ComputeCurvatureRadius(sg_out, j)
                   /\ \E j \in near : sg_radii[i + 1] = ComputeCurvatureRadius(sg_out, j)

\* C23 witness: the radius of sample 0 is below the raw radii of samples 0, 1 and
\* 2, so it is the raw radius of a sample reached by wrapping to the end of the
\* path
C23_MinimumAcrossTheWrap ==
    /\ sg_pc = "radii"
    /\ Len(sg_out) >= 6
    /\ \A j \in 0..2 : sg_radii[1] < ComputeCurvatureRadius(sg_out, j)

\* sample i and its two circular neighbours are collinear or coincident: the
\* triangle they span has an area of zero or below the degeneracy threshold
DegenerateTriangle(path, i) ==
    Abs(Cross(At(path, i - 1), At(path, i), At(path, i + 1))) < 2 * MinArea

HasDirection(path, i, window) == TangentUsable(RawLength(path, i, window))

\* C25: when the weighted window direction at a sample is below 0.001 in
\* _compute_smooth_tangents and an adjacent sample has a direction, the sample's
\* raw tangent is the raw tangent of such an adjacent sample, not a fixed
\* constant direction.
C25_FallbackFromNeighbour ==
    tg_pc \in {"raw", "done"} =>
        \A i \in 0..(Len(tg_path) - 1) :
            LET near == { j \in {(i + Len(tg_path) - 1) % Len(tg_path), (i + 1) % Len(tg_path)} :
                            HasDirection(tg_path, j, tg_window) }
            IN  (~HasDirection(tg_path, i, tg_window) /\ near # {})
                    => \E j \in near : tg_raw[i + 1] = tg_raw[j + 1]

\* C26: after _resample_path_uniform or _limit_path_curvature has returned in
\* create_track_from_path, the path it returned is a different list object from
\* the list the caller passed in, for every input length, and the caller's list
\* holds the samples it was called with.
C26_StagesReturnNewSequence ==
    pl_fn = "create_track_from_path" =>
        /\ (pl_pc = "resampled" /\ pl_resample) => ~pl_alias
        /\ pl_pc = "limited" => ~pl_alias
        /\ pl_pc \in {"resampled", "limited"} => pl_input \in PipelinePaths

\* _create_track_along_path has been called in this run
RoadwayCalled == \E k \in 1..Len(pl_log) : pl_log[k].stage = "surface"

\* C27: _create_track_along_path given fewer than 3 points raises ValueError
\* before it creates a mesh or an object, so the scene is as it was; in
\* create_track_from_path this rejection comes before either barrier is built,
\* and no roadway is built from fewer than 3 points.
C27_RejectedBeforeAnyMesh ==
    /\ RoadwayCalled =>
           IF Len(pl_path) < MinPathPoints
           THEN /\ pl_pc = "ValueError"
                /\ pl_scene = << >>
                /\ pl_objects = << >>
                /\ pl_log[Len(pl_log)].stage = "surface"
           ELSE pl_pc # "ValueError"
    /\ pl_pc \in {"surface", "outer", "inner", "returned"} => RoadwayCalled

\* C27 witness: a 2-point path went through resampling and limiting and was
\* rejected by the roadway builder, with barriers requested
C27_TwoPointPathRejected ==
    /\ pl_pc = "ValueError"
    /\ RoadwayCalled
    /\ pl_fn = "create_track_from_path"
    /\ Len(pl_input) = 2
    /\ pl_barriers
    /\ pl_resample
    /\ pl_width > 0

\* two vertices are at one place, to two units of the last decimal place
SamePlace(v, w) == \A c \in 1..3 : Abs(v[c] - w[c]) <= 2

\* vertex c (1..4) of the section of sample k (1-based) of a mesh object
SectionVertex(obj, k, c) == obj.verts[4 * (k - 1) + c]

\* C28: in the pipeline (track_width > 0), at every sample the left (outer)
\* barrier's face toward the roadway is at the roadway's left edge and the right (inner) barrier's face
\* toward the roadway is at the roadway's right edge, also where the adaptive
\* rule shrinks that side; each barrier is barrier_width wide at every sample
\* (to the rounding of its four corner coordinates) and barrier_height high.
C28_BarriersMeetRoadwayEdges ==
    (pl_pc \in {"inner", "returned"} /\ Len(pl_objects) = 3 /\ pl_width > 0) =>
        LET road  == pl_objects[1]
            left  == pl_objects[2]
            right == pl_objects[3]
        IN  \A k \in 1..Len(pl_path) :
                /\ SamePlace(SectionVertex(left, k, 3), SectionVertex(road, k, 1))
                /\ SamePlace(SectionVertex(right, k, 4), SectionVertex(road, k, 2))
                /\ Abs(Dist2(SectionVertex(left, k, 1), SectionVertex(left, k, 2))
                       - BarrierWidth) <= 4
                /\ Abs(Dist2(SectionVertex(right, k, 1), SectionVertex(right, k, 2))
                       - BarrierWidth) <= 4
                /\ SectionVertex(left, k, 2)[3] = SectionVertex(left, k, 3)[3] + BarrierHeight

\* C28 witness: both barriers are built and the roadway is narrower than
\* track_width at some sample, one of its sides shrunk by the adaptive rule
C28_BarriersAlongShrunkRoadway ==
    /\ pl_pc = "returned"
    /\ Len(pl_objects) = 3
    /\ pl_width > 0
    /\ \E k \in 1..Len(pl_path) :
           Dist2(SectionVertex(pl_objects[1], k, 1), SectionVertex(pl_objects[1], k, 2))
               < pl_width - Scale

\* the edges of the faces as their vertex orders traverse them
DirectedEdges(faces) ==
    { <<faces[k][c], faces[k][(c % 4) + 1]>> : k \in 1..Len(faces), c \in 1..4 }

\* no edge is traversed twice in one direction, and every traversed edge is
\* traversed in the opposite direction as well
ConsistentlyOriented(faces) ==
    LET edges == DirectedEdges(faces)
    IN  /\ Cardinality(edges) = 4 * Len(faces)
        /\ { <<e[2], e[1]>> : e \in edges } = edges

\* C29: the quads of the roadway and of the barriers (n >= 3 samples) are
\* consistently oriented: every edge shared by two faces is traversed in opposite
\* directions by the vertex orders of the two faces, on every span including the
\* wrap span from sample n-1 to sample 0.
C29_QuadsConsistentlyOriented ==
    \A o \in 1..Len(pl_objects) :
        Len(pl_objects[o].verts) >= 4 * MinPathPoints
            => ConsistentlyOriented(pl_objects[o].faces)

\* C29 witness: roadway and barriers are built; the top quad of the wrap span of
\* a barrier runs from the last section to the first along an edge that the side
\* quad runs back
C29_WrapSpanOriented ==
    /\ pl_pc = "returned"
    /\ Len(pl_objects) = 3
    /\ LET n == Len(pl_path)
       IN  /\ n >= MinPathPoints
           /\ <<Vertex(n - 1, 0), Vertex(0, 0)>> \in DirectedEdges(pl_objects[3].faces)
           /\ <<Vertex(0, 0), Vertex(n - 1, 0)>> \in DirectedEdges(pl_objects[3].faces)

\* the incoming or the outgoing segment of sample i is shorter than 0.001 (in
\* the plane, as get_turn_angle measures it)
HasShortLeg(points, i) ==
    \/ Dist2(At(points, i - 1), At(points, i)) < MinSegment
    \/ Dist2(At(points, i), At(points, i + 1)) < MinSegment

\* C30: _limit_path_curvature returns a path of fewer than 4 samples with every
\* sample unchanged, whatever its turn angles; in a longer path a sample whose
\* incoming or outgoing segment is shorter than 0.001 when the sweep reaches it
\* is not displaced in that sweep.
C30_ShortPathsAndShortLegsUntouched ==
    /\ []((lp_pc = "done" /\ Len(lp_path) < 4) => (lp_result = lp_path /\ lp_iter = 0))
    /\ [][lp_iter' # lp_iter =>
            \A i \in 0..(Len(lp_points) - 1) :
                HasShortLeg(SeenAt(lp_points, lp_points', i), i)
                    => lp_points'[i + 1] = lp_points[i + 1]]_vars

\* C30 witness: after the first sweep of a path with two samples at one place,
\* both are where they were and another sample has been moved
C30_DuplicatePairKeptInSweep ==
    /\ lp_pc = "loop"
    /\ lp_iter = 1
    /\ \E i \in 1..Len(lp_points) :
           LET j == (i % Len(lp_points)) + 1
           IN  /\ lp_path[i] = lp_path[j]
               /\ lp_points[i] = lp_path[i]
               /\ lp_points[j] = lp_path[j]
    /\ \E k \in 1..Len(lp_points) : lp_points[k] # lp_path[k]

========================================================================
